---- MODULE Spec2Model ----
(***************************************************************************)
(* Model of the security core of kanizsa-mcp-server                        *)
(* (src/src/shared-security.ts): JWTManager, SharedCache rate limiting,    *)
(* RateLimitManager and the SecurityManager facade.                        *)
(*                                                                         *)
(* Strings are sequences of character codes (ASCII), so that splitting,    *)
(* base64url and JSON conversions are computed, not assumed.               *)
(***************************************************************************)
EXTENDS Integers, Sequences, FiniteSets, TLC

\* ------------------------------------------------------------------------
\* Bounds of the model
\* ------------------------------------------------------------------------

\* number of clock steps the model takes
MaxTicks == 4

\* number of tokens issued in one behaviour
MaxTokens == 2

\* ------------------------------------------------------------------------
\* Configuration (SecurityConfig), with small values
\* ------------------------------------------------------------------------

\* SecurityConfig.jwtExpiry, seconds (default 3600)
jwtExpiry == 1

\* SecurityConfig.jwtSecret, the string "s"
jwtSecret == <<115>>

\* a key the server does not hold, the string "k"
otherSecret == <<107>>

\* the clock advances in steps of StepMs milliseconds (half a second)
StepMs == 1000 \div 2

\* ------------------------------------------------------------------------
\* Strings
\* ------------------------------------------------------------------------

\* '.', the separator of the parts of a token
DOT == 46

\* '=', the padding character of base64
PAD == 61

\* String.prototype.replace(/x/g, '') for a single character
Filter(s, drop) ==
  LET Keep(c) == c # drop
  IN  SelectSeq(s, Keep)

\* String.prototype.replace(/x/g, y) for single characters
ReplaceAll(s, from, to) == [i \in 1..Len(s) |-> IF s[i] = from THEN to ELSE s[i]]

\* String.prototype.split(sep) for a one-character separator: the parts
\* between the separators, empty parts kept
Split(s, sep) ==
  LET seps == {i \in 1..Len(s) : s[i] = sep}
      n == Cardinality(seps)
      \* position of the k-th separator; 0 before the first, Len(s) + 1 after the last
      at(k) == IF k = 0 THEN 0
               ELSE IF k > n THEN Len(s) + 1
               ELSE CHOOSE i \in seps : Cardinality({j \in seps : j < i}) = k - 1
  IN  [k \in 1..(n + 1) |-> SubSeq(s, at(k - 1) + 1, at(k) - 1)]

\* String.prototype.startsWith
StartsWith(s, prefix) ==
  /\ Len(s) >= Len(prefix)
  /\ SubSeq(s, 1, Len(prefix)) = prefix

\* String.prototype.substring(n)
Substring(s, n) == SubSeq(s, n + 1, Len(s))

\* decimal digits of a natural number, as Number.prototype.toString prints it
RECURSIVE NatToStr(_)
NatToStr(n) == IF n < 10 THEN <<48 + n>> ELSE NatToStr(n \div 10) \o <<48 + (n % 10)>>

IsDigit(c) == c >= 48 /\ c <= 57

\* ------------------------------------------------------------------------
\* Buffer: base64
\* ------------------------------------------------------------------------

\* the base64 alphabet A-Z a-z 0-9 + /
B64Char(v) ==
  IF v < 26 THEN 65 + v
  ELSE IF v < 52 THEN 97 + (v - 26)
  ELSE IF v < 62 THEN 48 + (v - 52)
  ELSE IF v = 62 THEN 43 ELSE 47

B64Val(c) ==
  IF c >= 65 /\ c <= 90 THEN c - 65
  ELSE IF c >= 97 /\ c <= 122 THEN c - 97 + 26
  ELSE IF c >= 48 /\ c <= 57 THEN c - 48 + 52
  ELSE IF c = 43 THEN 62 ELSE 63

\* Buffer.from(str): the bytes of a string of 7-bit characters
Utf8Bytes(str) == str

\* buffer.toString('base64'): three bytes give four characters of six bits
\* each; a last group of one or two bytes is padded with '='
Base64Encode(bytes) ==
  LET n == Len(bytes)
      byte(k) == IF k <= n THEN bytes[k] ELSE 0
  IN  [i \in 1..(4 * ((n + 2) \div 3)) |->
         LET g == 3 * ((i - 1) \div 4)
             j == (i - 1) % 4
         IN  IF j = 0 THEN B64Char(bytes[g + 1] \div 4)
             ELSE IF j = 1 THEN B64Char((bytes[g + 1] % 4) * 16 + byte(g + 2) \div 16)
             ELSE IF j = 2
                  THEN IF g + 2 > n THEN PAD
                       ELSE B64Char((bytes[g + 2] % 16) * 4 + byte(g + 3) \div 64)
             ELSE IF g + 3 > n THEN PAD ELSE B64Char(bytes[g + 3] % 64)]

\* Buffer.from(str, 'base64'): four characters give three bytes; an
\* incomplete last group gives the bytes it holds completely
Base64Decode(str) ==
  LET data == Filter(str, PAD)
      m == Len(data)
      sextet(k) == IF k <= m THEN B64Val(data[k]) ELSE 0
  IN  [i \in 1..((m * 3) \div 4) |->
         LET q == 4 * ((i - 1) \div 3)
             r == (i - 1) % 3
         IN  IF r = 0 THEN sextet(q + 1) * 4 + sextet(q + 2) \div 16
             ELSE IF r = 1 THEN (sextet(q + 2) % 16) * 16 + sextet(q + 3) \div 4
             ELSE (sextet(q + 3) % 4) * 64 + sextet(q + 4)]

\* JWTManager.base64UrlEncode
base64UrlEncode(str) ==
  Filter(ReplaceAll(ReplaceAll(Base64Encode(Utf8Bytes(str)), 43, 45), 47, 95), PAD)

RECURSIVE PadTo4(_)
PadTo4(str) == IF Len(str) % 4 # 0 THEN PadTo4(Append(str, PAD)) ELSE str

\* JWTManager.base64UrlDecode
base64UrlDecode(str) ==
  Base64Decode(PadTo4(ReplaceAll(ReplaceAll(str, 45, 43), 95, 47)))

\* ------------------------------------------------------------------------
\* JSON.stringify and JSON.parse, for objects whose values are strings,
\* natural numbers and arrays of strings
\* ------------------------------------------------------------------------

\* a string literal's characters: '"' (34) and '\' (92) are escaped with '\'
RECURSIVE JsonEscape(_)
JsonEscape(s) ==
  IF s = <<>> THEN <<>>
  ELSE (IF Head(s) = 34 \/ Head(s) = 92 THEN <<92, Head(s)>> ELSE <<Head(s)>>)
         \o JsonEscape(Tail(s))

JsonString(s) == <<34>> \o JsonEscape(s) \o <<34>>

RECURSIVE JsonJoin(_)
JsonJoin(items) ==
  IF items = <<>> THEN <<>>
  ELSE IF Len(items) = 1 THEN Head(items)
       ELSE Head(items) \o <<44>> \o JsonJoin(Tail(items))

JsonArray(strs) == <<91>> \o JsonJoin([i \in 1..Len(strs) |-> JsonString(strs[i])]) \o <<93>>

JsonMember(key, text) == JsonString(key) \o <<58>> \o text

\* the property names of JWTPayload
K_userId == <<117, 115, 101, 114, 73, 100>>
K_email == <<101, 109, 97, 105, 108>>
K_role == <<114, 111, 108, 101>>
K_permissions == <<112, 101, 114, 109, 105, 115, 115, 105, 111, 110, 115>>
K_iat == <<105, 97, 116>>
K_exp == <<101, 120, 112>>

\* JSON.stringify(jwtPayload): the properties in insertion order
StringifyPayload(p) ==
  <<123>> \o JsonJoin(<<JsonMember(K_userId, JsonString(p.userId)),
                        JsonMember(K_email, JsonString(p.email)),
                        JsonMember(K_role, JsonString(p.role)),
                        JsonMember(K_permissions, JsonArray(p.permissions)),
                        JsonMember(K_iat, NatToStr(p.iat)),
                        JsonMember(K_exp, NatToStr(p.exp))>>) \o <<125>>

\* JSON.stringify({alg: 'HS256', typ: 'JWT'})
HeaderJson ==
  <<123>> \o JsonJoin(<<JsonMember(<<97, 108, 103>>, JsonString(<<72, 83, 50, 53, 54>>)),
                        JsonMember(<<116, 121, 112>>, JsonString(<<74, 87, 84>>))>>) \o <<125>>

\* A parse result: ok, the value and the position after it.  A value is
\* [t |-> "s", s |-> string], [t |-> "n", n |-> number], [t |-> "a", a |-> values]
\* or [t |-> "o", o |-> <<key, value>> pairs].
ParseFail == [ok |-> FALSE, pos |-> 0]

\* the characters of a string literal, from position i (after the opening quote)
RECURSIVE ScanString(_, _, _)
ScanString(s, i, acc) ==
  IF i > Len(s) THEN ParseFail
  ELSE IF s[i] = 34 THEN [ok |-> TRUE, val |-> [t |-> "s", s |-> acc], pos |-> i + 1]
  ELSE IF s[i] = 92
       THEN IF i + 1 <= Len(s) /\ (s[i + 1] = 34 \/ s[i + 1] = 92)
            THEN ScanString(s, i + 2, Append(acc, s[i + 1]))
            ELSE ParseFail
       ELSE ScanString(s, i + 1, Append(acc, s[i]))

RECURSIVE ScanNumber(_, _, _)
ScanNumber(s, i, acc) ==
  IF i <= Len(s) /\ IsDigit(s[i])
  THEN ScanNumber(s, i + 1, acc * 10 + (s[i] - 48))
  ELSE [ok |-> TRUE, val |-> [t |-> "n", n |-> acc], pos |-> i]

RECURSIVE ParseValue(_, _)
RECURSIVE ParseElements(_, _, _)
RECURSIVE ParseMembers(_, _, _)

ParseValue(s, i) ==
  IF i > Len(s) THEN ParseFail
  ELSE IF s[i] = 34 THEN ScanString(s, i + 1, <<>>)
  ELSE IF IsDigit(s[i]) THEN ScanNumber(s, i, 0)
  ELSE IF s[i] = 91
       THEN IF i + 1 <= Len(s) /\ s[i + 1] = 93
            THEN [ok |-> TRUE, val |-> [t |-> "a", a |-> <<>>], pos |-> i + 2]
            ELSE ParseElements(s, i + 1, <<>>)
  ELSE IF s[i] = 123
       THEN IF i + 1 <= Len(s) /\ s[i + 1] = 125
            THEN [ok |-> TRUE, val |-> [t |-> "o", o |-> <<>>], pos |-> i + 2]
            ELSE ParseMembers(s, i + 1, <<>>)
  ELSE ParseFail

\* the elements of an array, from position i, up to ']'
ParseElements(s, i, acc) ==
  LET e == ParseValue(s, i)
  IN  IF ~e.ok \/ e.pos > Len(s) THEN ParseFail
      ELSE IF s[e.pos] = 44 THEN ParseElements(s, e.pos + 1, Append(acc, e.val))
      ELSE IF s[e.pos] = 93
           THEN [ok |-> TRUE, val |-> [t |-> "a", a |-> Append(acc, e.val)], pos |-> e.pos + 1]
      ELSE ParseFail

\* the members of an object, from position i, up to '}'
ParseMembers(s, i, acc) ==
  LET k == IF i <= Len(s) /\ s[i] = 34 THEN ScanString(s, i + 1, <<>>) ELSE ParseFail
  IN  IF ~k.ok \/ k.pos > Len(s) \/ s[k.pos] # 58 THEN ParseFail
      ELSE LET v == ParseValue(s, k.pos + 1)
           IN  IF ~v.ok \/ v.pos > Len(s) THEN ParseFail
               ELSE IF s[v.pos] = 44
                    THEN ParseMembers(s, v.pos + 1, Append(acc, <<k.val.s, v.val>>))
               ELSE IF s[v.pos] = 125
                    THEN [ok |-> TRUE,
                          val |-> [t |-> "o", o |-> Append(acc, <<k.val.s, v.val>>)],
                          pos |-> v.pos + 1]
               ELSE ParseFail

\* JSON.parse(text): the whole text must be one value
JsonParse(text) ==
  LET r == ParseValue(text, 1)
  IN  IF r.ok /\ r.pos = Len(text) + 1 THEN r ELSE ParseFail

\* the value of property key of a parsed object: the last member of that name
HasMember(obj, key) == \E i \in 1..Len(obj.o) : obj.o[i][1] = key

Member(obj, key) ==
  LET i == CHOOSE j \in 1..Len(obj.o) :
             /\ obj.o[j][1] = key
             /\ \A l \in (j + 1)..Len(obj.o) : obj.o[l][1] # key
  IN  obj.o[i][2]

\* ------------------------------------------------------------------------
\* JWTManager
\* ------------------------------------------------------------------------

\* HMAC-SHA256 as a collision-free keyed function: the digest determines the
\* key and the data
HmacSha256(key, data) == <<Len(key)>> \o key \o data

\* JWTManager.generateSignature with an explicit key
SignWith(key, data) == base64UrlEncode(Base64Encode(HmacSha256(key, data)))

\* JWTManager.generateSignature
generateSignature(data) == SignWith(jwtSecret, data)

\* Math.floor(Date.now() / 1000)
NowSeconds(nowMs) == nowMs \div 1000

\* JWTManager.generateToken
generateTokenExpNow(payload, nowMs) ==
  LET now == NowSeconds(nowMs)
      jwtPayload == [userId |-> payload.userId, email |-> payload.email,
                     role |-> payload.role, permissions |-> payload.permissions,
                     iat |-> now, exp |-> now]
      encodedHeader == base64UrlEncode(HeaderJson)
      encodedPayload == base64UrlEncode(StringifyPayload(jwtPayload))
      signature == generateSignature(encodedHeader \o <<DOT>> \o encodedPayload)
  IN  encodedHeader \o <<DOT>> \o encodedPayload \o <<DOT>> \o signature

generateToken(payload, nowMs) ==
  LET now == NowSeconds(nowMs)
      jwtPayload == [userId |-> payload.userId, email |-> payload.email,
                     role |-> payload.role, permissions |-> payload.permissions,
                     iat |-> now, exp |-> now + jwtExpiry]
      encodedHeader == base64UrlEncode(HeaderJson)
      encodedPayload == base64UrlEncode(StringifyPayload(jwtPayload))
      signature == generateSignature(encodedHeader \o <<DOT>> \o encodedPayload)
  IN  encodedHeader \o <<DOT>> \o encodedPayload \o <<DOT>> \o signature

\* the value verifyToken returns for null
NoPayload == [t |-> "null"]

\* decodedPayload.exp < now: false when exp is no number
ExpNotAfter(obj, now) ==
  /\ obj.t = "o"
  /\ HasMember(obj, K_exp)
  /\ Member(obj, K_exp).t = "n"
  /\ Member(obj, K_exp).n <= now

ExpBefore(obj, now) ==
  /\ obj.t = "o"
  /\ HasMember(obj, K_exp)
  /\ Member(obj, K_exp).t = "n"
  /\ Member(obj, K_exp).n < now

\* parts.length !== 3
WrongPartCountLax(parts) == Len(parts) < 3

WrongPartCount(parts) == Len(parts) # 3

\* signature !== expectedSignature
SignatureMismatchByLength(signature, expectedSignature) ==
  Len(signature) # Len(expectedSignature)

SignatureMismatch(signature, expectedSignature) == signature # expectedSignature

\* the characters signature !== expectedSignature examines: none when the
\* lengths differ, otherwise those up to and including the first that differs
StrictNotEqualSteps(a, b) ==
  IF Len(a) # Len(b) THEN 0
  ELSE LET diff == {i \in 1..Len(a) : a[i] # b[i]}
       IN  IF diff = {} THEN Len(a) ELSE CHOOSE i \in diff : \A j \in diff : i <= j

\* JWTManager.verifyToken: ok and payload are what the caller gets (payload or
\* null); at names the return statement taken, sigLen the length of the
\* signature part and steps the characters the comparison examined
verifyTokenExpiryFirst(token, nowMs) ==
  LET parts == Split(token, DOT)
  IN  IF WrongPartCount(parts)
      THEN [ok |-> FALSE, payload |-> NoPayload, at |-> "parts", sigLen |-> 0,
            steps |-> 0]
      ELSE LET decoded == JsonParse(base64UrlDecode(parts[2]))
               now == NowSeconds(nowMs)
               expectedSignature == generateSignature(parts[1] \o <<DOT>> \o parts[2])
               sigLen == Len(parts[3])
               steps == StrictNotEqualSteps(parts[3], expectedSignature)
           IN  IF ~decoded.ok
               THEN [ok |-> FALSE, payload |-> NoPayload, at |-> "catch",
                     sigLen |-> sigLen, steps |-> 0]
               ELSE IF ExpBefore(decoded.val, now)
               THEN [ok |-> FALSE, payload |-> NoPayload, at |-> "exp",
                     sigLen |-> sigLen, steps |-> 0]
               ELSE IF SignatureMismatch(parts[3], expectedSignature)
               THEN [ok |-> FALSE, payload |-> NoPayload, at |-> "signature",
                     sigLen |-> sigLen, steps |-> steps]
               ELSE [ok |-> TRUE, payload |-> decoded.val, at |-> "return",
                     sigLen |-> sigLen, steps |-> steps]

verifyToken(token, nowMs) ==
  LET parts == Split(token, DOT)
  IN  IF WrongPartCount(parts)
      THEN [ok |-> FALSE, payload |-> NoPayload, at |-> "parts", sigLen |-> 0,
            steps |-> 0]
      ELSE LET header == parts[1]
               payload == parts[2]
               signature == parts[3]
               expectedSignature == generateSignature(header \o <<DOT>> \o payload)
               sigLen == Len(signature)
               steps == StrictNotEqualSteps(signature, expectedSignature)
           IN  IF SignatureMismatch(signature, expectedSignature)
               THEN [ok |-> FALSE, payload |-> NoPayload, at |-> "signature",
                             sigLen |-> sigLen, steps |-> steps]
               ELSE LET decoded == JsonParse(base64UrlDecode(payload))
                        now == NowSeconds(nowMs)
                    IN  IF ~decoded.ok
                        THEN [ok |-> FALSE, payload |-> NoPayload, at |-> "catch",
                             sigLen |-> sigLen, steps |-> steps]
                        ELSE IF ExpBefore(decoded.val, now)
                        THEN [ok |-> FALSE, payload |-> NoPayload, at |-> "exp",
                             sigLen |-> sigLen, steps |-> steps]
                        ELSE [ok |-> TRUE, payload |-> decoded.val, at |-> "return",
                             sigLen |-> sigLen, steps |-> steps]

\* ------------------------------------------------------------------------
\* SecurityManager: tokens
\* ------------------------------------------------------------------------

\* the string 'Bearer '
Bearer == <<66, 101, 97, 114, 101, 114, 32>>

\* the value of a missing Authorization header
NoHeader == [present |-> FALSE, value |-> <<>>]

Header(str) == [present |-> TRUE, value |-> str]

\* SecurityManager.generateToken
SecurityManager_generateToken(payload, nowMs) == generateToken(payload, nowMs)

\* SecurityManager.authenticateRequest
authenticateRequest(authHeader, nowMs) ==
  IF ~authHeader.present \/ authHeader.value = <<>>
  THEN [authenticated |-> FALSE, user |-> NoPayload, error |-> "No authorization header",
        at |-> "noheader", sigLen |-> 0, steps |-> 0]
  ELSE IF ~StartsWith(authHeader.value, Bearer)
  THEN [authenticated |-> FALSE, user |-> NoPayload, error |-> "Invalid authorization format",
        at |-> "format", sigLen |-> 0, steps |-> 0]
  ELSE LET token == Substring(authHeader.value, 7)
           r == verifyToken(token, nowMs)
       IN  IF ~r.ok
           THEN [authenticated |-> FALSE, user |-> NoPayload,
                 error |-> "Invalid or expired token", at |-> r.at,
                 sigLen |-> r.sigLen, steps |-> r.steps]
           ELSE [authenticated |-> TRUE, user |-> r.payload, error |-> "", at |-> r.at,
                 sigLen |-> r.sigLen, steps |-> r.steps]

\* ------------------------------------------------------------------------
\* State
\* ------------------------------------------------------------------------

VARIABLES
  clock,    \* Date.now(), milliseconds
  issued,   \* the tokens generated so far, each with the identity it was made for
  last,     \* the most recent call of verifyToken or authenticateRequest and its result
  cacheUp,  \* whether the Redis server can be reached
  store,    \* Redis: for each rate-limit key its value and its expiry
  chk,      \* the calls of RateLimitManager.checkRateLimit in progress
  resp,     \* the most recent response of RateLimitManager.checkRateLimit
  win,      \* per key, what has happened since the key was created (history)
  auditEnabled,  \* SecurityConfig.enableAuditLog, as given to the AuditLogger
  alog,          \* the calls of AuditLogger.log in progress
  auditStore,    \* Redis: the audit entries, each with its key and its expiry
  cacheMetrics,  \* SharedCache.metrics: operation name -> count
  lastLog,       \* the most recent call of AuditLogger.log that has returned
  auditStat,     \* how many calls of log were made, wrote, failed (history)
  spans,         \* DistributedTracer.spans: the in-memory span table
  ctxs,          \* the contexts startSpan has returned, each with what it was given
  uuids,         \* how many identifiers crypto.randomUUID has produced
  saving,        \* the calls of saveSpan in progress (span ids)
  traceStore,    \* Redis: the persisted spans, each with its key and its expiry
  gt,            \* the call of getTrace in progress
  lastTrace,     \* the most recent result of getTrace
  traceLog,      \* the spans in the order they were ended, and failed saves (history)
  metrics,       \* MetricsCollector.metrics: series key to Metric object
  heap,          \* the Metric objects created so far
  flush,         \* the call of saveMetrics in progress
  metricStore,   \* Redis: the key metrics:current with its expiry
  series,        \* per series, the calls made since the last clear (history)
  hc,            \* the call of performHealthCheck in progress
  healthStore,   \* Redis: the key health:current with its expiry
  lastHealth,    \* the outcome of the most recent health call
  healthStat,    \* probe runs, calls and unhandled rejections so far (history)
  api,           \* MCPApiEndpoints: the hits the limiter has counted, the last request
  fac,           \* SecurityManager.checkRateLimit: the calls in progress and the last result
  conn,          \* SharedCache: isConnected, the socket of the client, the operations waiting
  http           \* SharedHttpClient.makeRequest: the attempts made, the waits, the outcome

tokenVars == <<issued, last>>

rateVars == <<cacheUp, store, chk, resp, win>>

auditVars == <<auditEnabled, alog, auditStore, cacheMetrics, lastLog, auditStat>>

traceVars == <<spans, ctxs, uuids, saving, traceStore, gt, lastTrace, traceLog>>

\* the state of the components other than tokens and rate limiting
metricVars == <<metrics, heap, flush, metricStore, series>>

healthVars == <<hc, healthStore, lastHealth, healthStat>>

edgeVars == <<api, fac, conn, http>>
obsVars == <<auditVars, traceVars, metricVars, healthVars, edgeVars>>

vars == <<clock, issued, last, cacheUp, store, chk, resp, win, obsVars>>

\* ------------------------------------------------------------------------
\* Inputs of the token operations
\* ------------------------------------------------------------------------

\* identities: field values with '"', '\', '.', an empty string, an empty list
Identities ==
  { [userId |-> <<117, 34>>, email |-> <<64>>, role |-> <<>>, permissions |-> <<>>],
    [userId |-> <<118>>, email |-> <<92>>, role |-> <<97>>,
     permissions |-> <<<<114>>, <<119, 46>>>>] }

NoIdentity == [userId |-> <<>>, email |-> <<>>, role |-> <<>>, permissions |-> <<>>]

NoIssue == [token |-> <<>>, identity |-> NoIdentity, iat |-> 0]

Flip(c) == IF c = 65 THEN 66 ELSE 65

Join3(h, p, s) == h \o <<DOT>> \o p \o <<DOT>> \o s

\* a payload an attacker would like to have signed: role "z", expiring late
ForgedPayload ==
  base64UrlEncode(StringifyPayload(
    [userId |-> <<118>>, email |-> <<92>>, role |-> <<122>>, permissions |-> <<>>,
     iat |-> 0, exp |-> 99]))

\* a string with one character changed, one added, one removed
Changed(p) ==
  { [p EXCEPT ![Len(p)] = Flip(p[Len(p)])],
    Append(p, 65),
    SubSeq(p, 1, Len(p) - 1) }

\* three-part tokens that differ from tok in the payload or in the signature:
\* a changed or replaced payload under the old signature, a changed or empty
\* signature, and another payload signed with a key the server does not hold
Tampered(tok) ==
  LET parts == Split(tok, DOT)
      h == parts[1]
      p == parts[2]
      s == parts[3]
  IN  {Join3(h, p2, s) : p2 \in Changed(p) \cup {ForgedPayload}}
        \cup {Join3(h, p, s2) : s2 \in Changed(s) \cup {<<>>}}
        \cup {Join3(h, ForgedPayload, SignWith(otherSecret, h \o <<DOT>> \o ForgedPayload))}

\* strings that do not split into three parts at '.': none, two and four parts
Malformed(tok) ==
  LET parts == Split(tok, DOT)
  IN  { <<>>, parts[1] \o <<DOT>> \o parts[2], tok \o <<DOT>> \o parts[3] }

\* what verifyToken is called with, given the issued token t
TokenInputs(t) ==
  {[kind |-> "issued", orig |-> t, token |-> t.token]}
    \cup {[kind |-> "tampered", orig |-> t, token |-> x] : x \in Tampered(t.token)}
    \cup {[kind |-> "malformed", orig |-> t, token |-> x] : x \in Malformed(t.token)}

\* the token, and one token of each kind that verifyToken rejects
FewTokenInputs(t) ==
  LET parts == Split(t.token, DOT)
  IN  { [kind |-> "issued", orig |-> t, token |-> t.token],
        [kind |-> "tampered", orig |-> t,
         token |-> Join3(parts[1], ForgedPayload, parts[3])],
        [kind |-> "malformed", orig |-> t, token |-> parts[1] \o <<DOT>> \o parts[2]] }

\* what authenticateRequest is called with: no header, another scheme, and
\* 'Bearer ' before a token
HeaderInputs(t) ==
  { [kind |-> "noheader", orig |-> t, header |-> NoHeader],
    [kind |-> "notbearer", orig |-> t, header |-> Header(<<66, 97, 115, 105, 99, 32, 120>>)] }
    \cup { [kind |-> i.kind, orig |-> i.orig, header |-> Header(Bearer \o i.token)]
            : i \in FewTokenInputs(t) }

NoCall ==
  [op |-> "none", kind |-> "none", orig |-> NoIssue, now |-> 0,
   ok |-> FALSE, payload |-> NoPayload, error |-> "", at |-> "none", sigLen |-> 0,
   steps |-> 0]

\* ------------------------------------------------------------------------
\* Token operations
\* ------------------------------------------------------------------------

\* a caller obtains a token: SecurityManager.generateToken(identity)
GenerateToken(id) ==
  /\ Cardinality(issued) < MaxTokens
  /\ issued' = issued \cup {[token |-> SecurityManager_generateToken(id, clock),
                             identity |-> id, iat |-> NowSeconds(clock)]}
  /\ UNCHANGED <<clock, last, rateVars, obsVars>>

\* the first token is generated
GenerateFirstToken(id) ==
  /\ issued = {}
  /\ GenerateToken(id)

\* a call of JWTManager.verifyToken that forgets the token it has rejected
VerifyTokenRevoking(inp) ==
  /\ LET r == verifyToken(inp.token, clock)
     IN  /\ last' = [op |-> "verify", kind |-> inp.kind, orig |-> inp.orig, now |-> clock,
                      ok |-> r.ok, payload |-> r.payload, error |-> "", at |-> r.at,
                  sigLen |-> r.sigLen, steps |-> r.steps]
         /\ issued' = IF r.ok THEN issued ELSE issued \ {inp.orig}
  /\ UNCHANGED <<clock, rateVars, obsVars>>

\* a call of JWTManager.verifyToken
VerifyToken(inp) ==
  /\ LET r == verifyToken(inp.token, clock)
     IN  last' = [op |-> "verify", kind |-> inp.kind, orig |-> inp.orig, now |-> clock,
                  ok |-> r.ok, payload |-> r.payload, error |-> "", at |-> r.at,
                  sigLen |-> r.sigLen, steps |-> r.steps]
  /\ UNCHANGED <<clock, issued, rateVars, obsVars>>

\* a call of SecurityManager.authenticateRequest
AuthenticateRequest(inp) ==
  /\ LET r == authenticateRequest(inp.header, clock)
     IN  last' = [op |-> "auth", kind |-> inp.kind, orig |-> inp.orig, now |-> clock,
                  ok |-> r.authenticated, payload |-> r.user, error |-> r.error, at |-> r.at,
                  sigLen |-> r.sigLen, steps |-> r.steps]
  /\ UNCHANGED <<clock, issued, rateVars, obsVars>>

\* ------------------------------------------------------------------------
\* SharedCache: keys
\* ------------------------------------------------------------------------

\* position of the first occurrence of sub in s, 0 if there is none
IndexOf(s, sub) ==
  LET hits == {i \in 1..(Len(s) - Len(sub) + 1) : SubSeq(s, i, i + Len(sub) - 1) = sub}
  IN  IF hits = {} THEN 0 ELSE CHOOSE i \in hits : \A j \in hits : i <= j

\* String.prototype.replace(sub, val): the first occurrence only
ReplaceFirst(s, sub, val) ==
  LET i == IndexOf(s, sub)
  IN  IF i = 0 THEN s
      ELSE SubSeq(s, 1, i - 1) \o val \o SubSeq(s, i + Len(sub), Len(s))

\* CACHE_KEYS.API_RATE_LIMIT: 'rate:limit:{userId}:{endpoint}'
API_RATE_LIMIT ==
  <<114, 97, 116, 101, 58, 108, 105, 109, 105, 116, 58, 123, 117, 115, 101, 114, 73, 100,
    125, 58, 123, 101, 110, 100, 112, 111, 105, 110, 116, 125>>

\* the property names userId and endpoint
P_userId == <<117, 115, 101, 114, 73, 100>>
P_endpoint == <<101, 110, 100, 112, 111, 105, 110, 116>>

\* SharedCache.generateKey: params is Object.entries(params), in order
RECURSIVE generateKey(_, _)
generateKey(pattern, params) ==
  IF params = <<>> THEN pattern
  ELSE generateKey(ReplaceFirst(pattern, <<123>> \o Head(params)[1] \o <<125>>, Head(params)[2]),
                   Tail(params))

\* the key of the counter of (userId, endpoint)
RateKey(userId, endpoint) ==
  generateKey(API_RATE_LIMIT, <<<<P_userId, userId>>, <<P_endpoint, endpoint>>>>)

\* ------------------------------------------------------------------------
\* Rate limiting: configuration and inputs
\* ------------------------------------------------------------------------

\* SecurityConfig.rateLimitMax (default 100)
rateLimitMax == 2

\* SecurityConfig.rateLimitWindow, seconds (default 60)
rateLimitWindow == 1

\* number of calls of checkRateLimit that can be in progress together
MaxChecks == 2

\* a counter is not driven further than this
MaxCount == rateLimitMax + 1

\* the users 'a' and 'b'
Users == {<<97>>, <<98>>}

\* the route '/x'
Endpoints == {<<47, 120>>}

\* the user whose requests are followed step by step
Callers == {<<97>>}

\* (userId, endpoint) pairs whose strings contain the ':' of the key pattern
\* or one of its placeholders: ('a:b', 'c'), ('a', 'b:c'), ('{endpoint}', 'x')
\* and ('x', '{endpoint}')
DelimiterPairs ==
  { <<<<97, 58, 98>>, <<99>>>>, <<<<97>>, <<98, 58, 99>>>>,
    <<<<123>> \o P_endpoint \o <<125>>, <<120>>>>,
    <<<<120>>, <<123>> \o P_endpoint \o <<125>>>> }

RateKeys ==
  {RateKey(u, e) : u \in Users, e \in Endpoints}
    \cup {RateKey(p[1], p[2]) : p \in DelimiterPairs}

Checks == 1..MaxChecks

\* ------------------------------------------------------------------------
\* Redis commands on the store.  An entry with count 0 is an absent key;
\* expireAt -1 is a key without expiry.
\* ------------------------------------------------------------------------

NoEntry == [count |-> 0, expireAt |-> -1]

\* INCR key: creates the key at 1, keeps the expiry of an existing key
RedisIncrCapped(st, key) ==
  [st EXCEPT ![key].count = IF @ >= rateLimitMax THEN @ ELSE @ + 1]

RedisIncr(st, key) == [st EXCEPT ![key].count = @ + 1]

\* EXPIRE key seconds
RedisExpire(st, key, seconds, nowMs) ==
  IF st[key].count > 0 THEN [st EXCEPT ![key].expireAt = nowMs + seconds * 1000] ELSE st

\* GET key: 0 stands for null
RedisGet(st, key) == st[key].count

\* TTL key: -2 for an absent key, -1 for a key without expiry, else the
\* remaining time rounded to seconds
RedisTtl(st, key, nowMs) ==
  IF st[key].count = 0 THEN -2
  ELSE IF st[key].expireAt = -1 THEN -1
  ELSE (st[key].expireAt - nowMs + 500) \div 1000

\* the key has reached its expiry
Expired(st, key, nowMs) ==
  /\ st[key].count > 0
  /\ st[key].expireAt # -1
  /\ st[key].expireAt <= nowMs

\* ------------------------------------------------------------------------
\* SharedCache.checkRateLimit, SharedCache.getRateLimitInfo and
\* RateLimitManager.checkRateLimit, one step per awaited Redis command
\* ------------------------------------------------------------------------

\* current === 1
ShouldExpireNever(current) == FALSE

ShouldExpire(current) == current = 1

\* current <= limit
WithinLimitStrict(current, limit) == current < limit

WithinLimit(current, limit) == current <= limit

\* what checkRateLimit returns from its catch block: 'Allow if rate limiting fails'
FailClosed == FALSE

FailOpen == TRUE

\* info: null, or the counter and its remaining time
NoInfo == [present |-> FALSE, current |-> 0, limit |-> 100, window |-> 0]

\* getRateLimitInfo's result from GET and TTL: current && ttl > 0
RateLimitInfo(current, ttl) ==
  IF current # 0 /\ ttl > 0
  THEN [present |-> TRUE, current |-> current, limit |-> 100, window |-> ttl]
  ELSE NoInfo

Max(a, b) == IF a >= b THEN a ELSE b

Min(a, b) == IF a <= b THEN a ELSE b

\* a call that is not in progress
IdleCheck ==
  [pc |-> "idle", userId |-> <<>>, endpoint |-> <<>>, key |-> <<>>, current |-> 0,
   allowed |-> FALSE, cur |-> 0, rank |-> 0, stale |-> FALSE, incrFailed |-> FALSE, before |-> 0, sameWin |-> FALSE]

NoResponse ==
  [op |-> "none", key |-> <<>>, allowed |-> FALSE, remaining |-> 0, resetTime |-> 0,
   threw |-> FALSE, current |-> 0, rank |-> 0, stale |-> FALSE, incrFailed |-> FALSE,
   before |-> 0]

NoWindow == [incs |-> 0, grants |-> 0]

\* the counter value the most recent response for key was computed from, 0 if none
LastCounted(key) ==
  IF resp.op = "check" /\ resp.key = key /\ ~resp.incrFailed THEN resp.current ELSE 0

\* the calls for key that have not yet sent their INCR
Waiting(key) == {d \in Checks : chk[d].pc = "incr" /\ chk[d].key = key}

\* RateLimitManager.checkRateLimit(userId, endpoint) is called
StartCheck(c, userId, endpoint) ==
  LET key == RateKey(userId, endpoint)
  IN  /\ chk[c].pc = "idle"
      /\ store[key].count + Cardinality(Waiting(key)) < MaxCount
      /\ chk' = [chk EXCEPT ![c] = [IdleCheck EXCEPT !.pc = "incr", !.key = key,
                                                     !.userId = userId,
                                                     !.endpoint = endpoint,
                                                     !.before = LastCounted(key),
                                                     !.sameWin = ~resp.stale]]
      /\ UNCHANGED <<clock, tokenVars, cacheUp, store, resp, win, obsVars>>

\* checkRateLimit: await this.client.incr(key), and the return when current is not 1
Incr(c) ==
  LET key == chk[c].key
      after == RedisIncr(store, key)
      current == RedisGet(after, key)
      granted == ~ShouldExpire(current) /\ WithinLimit(current, rateLimitMax)
  IN  /\ chk[c].pc = "incr"
      /\ cacheUp
      /\ store' = after
      /\ chk' = [chk EXCEPT ![c].current = current,
                            ![c].rank = win[key].incs + 1,
                            ![c].allowed = granted,
                            ![c].pc = IF ShouldExpire(current) THEN "expire" ELSE "get"]
      /\ win' = [win EXCEPT ![key].incs = @ + 1,
                            ![key].grants = IF granted THEN @ + 1 ELSE @]
      /\ UNCHANGED <<clock, tokenVars, cacheUp, resp, obsVars>>

\* checkRateLimit: the incr (or the connect before it) throws; the catch block returns
IncrFail(c) ==
  /\ chk[c].pc = "incr"
  /\ ~cacheUp
  /\ chk' = [chk EXCEPT ![c].allowed = FailOpen, ![c].incrFailed = TRUE, ![c].pc = "get"]
  /\ UNCHANGED <<clock, tokenVars, cacheUp, store, resp, win, obsVars>>

\* checkRateLimit: await this.client.expire(key, window), and the return
Expire(c) ==
  LET key == chk[c].key
      granted == WithinLimit(chk[c].current, rateLimitMax)
  IN  /\ chk[c].pc = "expire"
      /\ cacheUp
      /\ store' = RedisExpire(store, key, rateLimitWindow, clock)
      /\ chk' = [chk EXCEPT ![c].allowed = granted, ![c].pc = "get"]
      /\ win' = [win EXCEPT ![key].grants = IF granted /\ ~chk[c].stale THEN @ + 1 ELSE @]
      /\ UNCHANGED <<clock, tokenVars, cacheUp, resp, obsVars>>

\* checkRateLimit: the expire throws; the catch block returns
ExpireFail(c) ==
  /\ chk[c].pc = "expire"
  /\ ~cacheUp
  /\ chk' = [chk EXCEPT ![c].allowed = FailOpen, ![c].pc = "get"]
  /\ UNCHANGED <<clock, tokenVars, cacheUp, store, resp, win, obsVars>>

\* getRateLimitInfo: await this.client.get(key)
Get(c) ==
  /\ chk[c].pc = "get"
  /\ cacheUp
  /\ chk' = [chk EXCEPT ![c].cur = RedisGet(store, chk[c].key), ![c].pc = "ttl"]
  /\ UNCHANGED <<clock, tokenVars, cacheUp, store, resp, win, obsVars>>

\* RateLimitManager.checkRateLimit returns its result, computed from info
Respond(c, info) ==
  LET key == chk[c].key
  IN  /\ resp' = [op |-> "check", key |-> key, allowed |-> chk[c].allowed,
                  remaining |-> IF info.present THEN Max(0, rateLimitMax - info.current)
                                ELSE rateLimitMax,
                  resetTime |-> IF info.present THEN clock + info.window * 1000
                                ELSE clock + rateLimitWindow * 1000,
                  threw |-> FALSE, current |-> chk[c].current, rank |-> chk[c].rank,
                  stale |-> chk[c].stale, incrFailed |-> chk[c].incrFailed,
                  before |-> chk[c].before]
      /\ chk' = [chk EXCEPT ![c] = IdleCheck]

\* getRateLimitInfo: the get throws, info is null
GetFail(c) ==
  /\ chk[c].pc = "get"
  /\ ~cacheUp
  /\ Respond(c, NoInfo)
  /\ UNCHANGED <<clock, tokenVars, cacheUp, store, win, obsVars>>

\* getRateLimitInfo: await this.client.ttl(key)
Ttl(c) ==
  /\ chk[c].pc = "ttl"
  /\ cacheUp
  /\ Respond(c, RateLimitInfo(chk[c].cur, RedisTtl(store, chk[c].key, clock)))
  /\ UNCHANGED <<clock, tokenVars, cacheUp, store, win, obsVars>>

\* getRateLimitInfo: the ttl throws, info is null
TtlFail(c) ==
  /\ chk[c].pc = "ttl"
  /\ ~cacheUp
  /\ Respond(c, NoInfo)
  /\ UNCHANGED <<clock, tokenVars, cacheUp, store, win, obsVars>>

\* ------------------------------------------------------------------------
\* AuditLogger
\* ------------------------------------------------------------------------

\* number of calls of AuditLogger.log in a behaviour
MaxAuditCalls == 2

\* number of calls of AuditLogger.log that can be in progress together
MaxLogs == 2

\* the time an audit entry is kept, seconds: cache.set(key, fullEntry, 86400)
AuditTtl == 86400

LogSlots == 1..MaxLogs

\* digits of n, padded with zeros on the left to width w
RECURSIVE PadZero(_, _)
PadZero(str, w) == IF Len(str) >= w THEN str ELSE PadZero(<<48>> \o str, w)

\* Date.prototype.toISOString for a time of the first day of the epoch:
\* '1970-01-01T' hh ':' mm ':' ss '.' mmm 'Z'
ToISOString(ms) ==
  <<49, 57, 55, 48, 45, 48, 49, 45, 48, 49, 84>>
    \o PadZero(NatToStr((ms \div 3600000) % 24), 2) \o <<58>>
    \o PadZero(NatToStr((ms \div 60000) % 60), 2) \o <<58>>
    \o PadZero(NatToStr((ms \div 1000) % 60), 2) \o <<46>>
    \o PadZero(NatToStr(ms % 1000), 3) \o <<90>>

\* `audit:${fullEntry.timestamp}:${fullEntry.userId}:${fullEntry.action}`
AuditKey(fullEntry) ==
  <<97, 117, 100, 105, 116, 58>> \o fullEntry.timestamp \o <<58>> \o fullEntry.userId
    \o <<58>> \o fullEntry.action

\* a boolean as template and JSON text show it
BoolText(b) == IF b THEN <<116, 114, 117, 101>> ELSE <<102, 97, 108, 115, 101>>

\* the entry logAuthAttempt(userId, success) passes to log
AuthAttemptEntry(userId, success) ==
  [userId |-> userId, action |-> <<97, 117, 116, 104, 101, 110, 116, 105, 99, 97, 116, 105, 111, 110>>, resource |-> <<97, 117, 116, 104>>,
   details |-> <<<<<<115, 117, 99, 99, 101, 115, 115>>, BoolText(success)>>>>, success |-> success]

\* the entry logApiAccess(userId, endpoint, method, success) passes to log
ApiAccessEntry(userId, endpoint, method, success) ==
  [userId |-> userId, action |-> <<97, 112, 105, 95, 97, 99, 99, 101, 115, 115>>, resource |-> endpoint,
   details |-> <<<<<<109, 101, 116, 104, 111, 100>>, method>>, <<<<101, 110, 100, 112, 111, 105, 110, 116>>, endpoint>>>>, success |-> success]

\* the entry logPhotoAnalysis(userId, photoId, success) passes to log
PhotoAnalysisEntry(userId, photoId, success) ==
  [userId |-> userId, action |-> <<112, 104, 111, 116, 111, 95, 97, 110, 97, 108, 121, 115, 105, 115>>, resource |-> <<112, 104, 111, 116, 111, 58>> \o photoId,
   details |-> <<<<<<112, 104, 111, 116, 111, 73, 100>>, photoId>>>>, success |-> success]

\* what log is called with: user 'a', route '/x', method 'GET', photo 'p'
AuditEntries ==
  {AuthAttemptEntry(<<97>>, ok) : ok \in BOOLEAN}
    \cup {ApiAccessEntry(<<97>>, <<47, 120>>, <<71, 69, 84>>, TRUE),
          PhotoAnalysisEntry(<<97>>, <<112>>, TRUE)}

NoEntryLogged ==
  [userId |-> <<>>, action |-> <<>>, resource |-> <<>>, details |-> <<>>,
   success |-> FALSE, timestamp |-> <<>>]

\* { ...entry, timestamp: new Date().toISOString() }
FullEntry(entry, nowMs) ==
  [userId |-> entry.userId, action |-> entry.action, resource |-> entry.resource,
   details |-> entry.details, success |-> entry.success, timestamp |-> ToISOString(nowMs)]

IdleLog == [pc |-> "idle", key |-> <<>>, entry |-> NoEntryLogged]

NoLog ==
  [op |-> "none", key |-> <<>>, entry |-> NoEntryLogged, wrote |-> FALSE,
   failed |-> FALSE, threw |-> FALSE, replaced |-> FALSE]

NoAuditStat == [calls |-> 0, written |-> 0, dropped |-> 0, expired |-> 0]

\* the names updateMetrics is called with by set, get, delete, mset and mget
MetricOps == {"set", "get_hit", "get_miss", "get_error", "delete", "mset", "mget"}

\* SharedCache.updateMetrics(operation): this.metrics.get(operation) || 0, plus 1
updateMetrics(counts, operation) == [counts EXCEPT ![operation] = @ + 1]

\* SETEX key seconds value: creates the key or replaces its value and expiry
RedisSetEx(st, key, seconds, value, nowMs) ==
  {x \in st : x.key # key}
    \cup {[key |-> key, value |-> value, expireAt |-> nowMs + seconds * 1000]}

RedisHas(st, key) == \E x \in st : x.key = key

\* if (!this.enabled) return
LoggingOffNever == FALSE

LoggingOff == ~auditEnabled

\* whether log throws to its caller when cache.set has thrown: its catch
\* block writes to the console and log returns
LogCatchRethrows == TRUE

LogCatchThrows == FALSE

\* AuditLogger.log(entry) is called; with logging off it returns at once,
\* else the entry gets its timestamp and key and cache.set is called
LogStart(l, entry) ==
  LET fullEntry == FullEntry(entry, clock)
  IN  /\ alog[l].pc = "idle"
      /\ auditStat.calls < MaxAuditCalls
      /\ auditStat' = [auditStat EXCEPT !.calls = @ + 1]
      /\ IF LoggingOff
         THEN /\ lastLog' = [NoLog EXCEPT !.op = "log"]
              /\ UNCHANGED alog
         ELSE /\ alog' = [alog EXCEPT ![l] = [pc |-> "set", key |-> AuditKey(fullEntry),
                                               entry |-> fullEntry]]
              /\ UNCHANGED lastLog
      /\ UNCHANGED <<edgeVars, traceVars, metricVars, healthVars, clock, tokenVars, rateVars, auditEnabled, auditStore, cacheMetrics>>

\* cache.set: connect, compress, setEx and updateMetrics('set'); log returns
LogSet(l) ==
  /\ alog[l].pc = "set"
  /\ cacheUp
  /\ auditStore' = RedisSetEx(auditStore, alog[l].key, AuditTtl, alog[l].entry, clock)
  /\ cacheMetrics' = updateMetrics(cacheMetrics, "set")
  /\ lastLog' = [op |-> "log", key |-> alog[l].key, entry |-> alog[l].entry,
                 wrote |-> TRUE, failed |-> FALSE, threw |-> FALSE,
                 replaced |-> RedisHas(auditStore, alog[l].key)]
  /\ auditStat' = [auditStat EXCEPT !.written = @ + 1]
  /\ alog' = [alog EXCEPT ![l] = IdleLog]
  /\ UNCHANGED <<edgeVars, traceVars, metricVars, healthVars, clock, tokenVars, rateVars, auditEnabled>>

\* cache.set: connect or setEx throws, set rethrows, log catches
LogSetFail(l) ==
  /\ alog[l].pc = "set"
  /\ ~cacheUp
  /\ lastLog' = [op |-> "log", key |-> alog[l].key, entry |-> alog[l].entry,
                 wrote |-> FALSE, failed |-> TRUE, threw |-> LogCatchThrows,
                 replaced |-> FALSE]
  /\ auditStat' = [auditStat EXCEPT !.dropped = @ + 1]
  /\ alog' = [alog EXCEPT ![l] = IdleLog]
  /\ UNCHANGED <<edgeVars, traceVars, metricVars, healthVars, clock, tokenVars, rateVars, auditEnabled, auditStore, cacheMetrics>>

\* Redis removes the audit entries that have reached their expiry
TickAudit(now) ==
  LET gone == {x \in auditStore : x.expireAt <= now}
  IN  /\ auditStore' = auditStore \ gone
      /\ auditStat' = [auditStat EXCEPT !.expired = @ + Cardinality(gone)]
      /\ UNCHANGED <<auditEnabled, alog, cacheMetrics, lastLog>>

\* ------------------------------------------------------------------------
\* DistributedTracer
\* ------------------------------------------------------------------------

\* number of spans started in a behaviour
MaxSpans == 5

\* number of spans started in a behaviour in which time passes
MaxTimedSpans == 2

\* MonitoringConfig.maxTraceDuration, milliseconds (default 300000)
maxTraceDuration == 1000

\* MonitoringConfig.traceSamplingRate, in percent (default 0.1)
traceSamplingPct == 10

\* the time a persisted span is kept, seconds: cache.set(key, span, 3600)
TraceTtl == 3600

\* MonitoringConfig.enableTracing (default true)
enableTracing == TRUE

\* values of Math.random(), in percent: below the sampling rate and not below
RandomDraws == {traceSamplingPct - 1, traceSamplingPct}

\* the n-th identifier crypto.randomUUID produces
Uuid(n) == <<117>> \o NatToStr(n)

\* an absent string: parentId of a root span, traceId of no trace
NoId == <<>>

\* an absent number: endTime and duration of an open span
NoTime == -1

\* no parentContext
NoContext == [traceId |-> NoId, spanId |-> NoId, parentId |-> NoId, sampled |-> FALSE]

SpanNames == {<<111, 112>>}

\* `trace:${span.traceId}:${span.id}`
TraceKey(span) == <<116, 114, 97, 99, 101, 58>> \o span.traceId \o <<58>> \o span.id

\* `trace:${traceId}:*`
TracePattern(traceId) == <<116, 114, 97, 99, 101, 58>> \o traceId \o <<58, 42>>

\* KEYS pattern, for a pattern that ends in its only '*': the keys that start
\* with what is before it
GlobMatch(pattern, key) == StartsWith(key, SubSeq(pattern, 1, Len(pattern) - 1))

\* this.spans.get(spanId)
HasSpan(spanId) == \E sp \in spans : sp.id = spanId

SpanOf(spanId) == CHOOSE sp \in spans : sp.id = spanId

\* Math.random() < this.config.traceSamplingRate
SampledAsParent(draw, parentContext) ==
  IF parentContext = NoContext THEN draw < traceSamplingPct ELSE parentContext.sampled

Sampled(draw, parentContext) == draw < traceSamplingPct

\* parentContext?.traceId || this.generateTraceId()
NeedsTraceIdAlways(parentContext) == TRUE

NeedsTraceId(parentContext) == parentContext.traceId = NoId

\* parentId: parentContext?.spanId
ParentIdDropped(parentContext) == NoId

ParentId(parentContext) == parentContext.spanId

\* DistributedTracer.startSpan(name, parentContext)
StartSpan(name, parentContext, draw) ==
  LET fresh == NeedsTraceId(parentContext)
      traceId == IF fresh THEN Uuid(uuids + 1) ELSE parentContext.traceId
      spanId == IF fresh THEN Uuid(uuids + 2) ELSE Uuid(uuids + 1)
      span == [id |-> spanId, parentId |-> ParentId(parentContext), traceId |-> traceId,
               name |-> name, startTime |-> clock, endTime |-> NoTime,
               duration |-> NoTime, tags |-> {}, logs |-> <<>>]
  IN  /\ enableTracing
      /\ Cardinality(spans) < MaxSpans
      /\ uuids' = IF fresh THEN uuids + 2 ELSE uuids + 1
      /\ spans' = {sp \in spans : sp.id # spanId} \cup {span}
      /\ ctxs' = ctxs \cup {[traceId |-> traceId, spanId |-> spanId,
                             parentId |-> ParentId(parentContext),
                             sampled |-> Sampled(draw, parentContext),
                             given |-> parentContext, draw |-> draw,
                             after |-> traceLog.failed]}
      /\ UNCHANGED <<edgeVars, metricVars, healthVars, clock, tokenVars, rateVars, auditVars, saving, traceStore, gt,
                     lastTrace, traceLog>>

\* startSpan in a behaviour in which time passes; the span is sampled
StartTimedSpan(name, parentContext) ==
  /\ Cardinality(spans) < MaxTimedSpans
  /\ StartSpan(name, parentContext, traceSamplingPct - 1)

\* span.duration <= this.config.maxTraceDuration
WithinMaxDurationAlways(duration) == TRUE

WithinMaxDuration(duration) == duration <= maxTraceDuration

\* DistributedTracer.endSpan(spanId): the span gets its endTime and duration
\* and, if the duration allows, saveSpan is called
EndSpanCall(spanId) ==
  /\ enableTracing
  /\ HasSpan(spanId)
  /\ LET span == SpanOf(spanId)
         ended == [span EXCEPT !.endTime = clock, !.duration = clock - span.startTime]
     IN  /\ spans' = (spans \ {span}) \cup {ended}
         /\ saving' = IF WithinMaxDuration(ended.duration) THEN saving \cup {spanId}
                      ELSE saving
         /\ traceLog' = [traceLog EXCEPT !.ended = Append(@, spanId),
                                         !.atEnd = @ \cup {ended}]
  /\ UNCHANGED <<edgeVars, metricVars, healthVars, clock, tokenVars, rateVars, auditVars, ctxs, uuids, traceStore, gt,
                 lastTrace>>

\* endSpan called once for a span, as its callers are required to
EndSpan(spanId) ==
  /\ HasSpan(spanId)
  /\ SpanOf(spanId).endTime = NoTime
  /\ EndSpanCall(spanId)

\* number of calls of endSpan for one span
MaxEnds == 2

\* endSpan called for a span that has been ended: the span is still in the
\* table, and nothing in endSpan looks at its endTime
EndSpanAgain(spanId) ==
  /\ HasSpan(spanId)
  /\ SpanOf(spanId).endTime # NoTime
  /\ Cardinality({i \in DOMAIN traceLog.ended : traceLog.ended[i] = spanId}) < MaxEnds
  /\ EndSpanCall(spanId)

\* DistributedTracer.addTag(spanId, 'k', 'v')
AddTag(spanId) ==
  /\ enableTracing
  /\ HasSpan(spanId)
  /\ LET span == SpanOf(spanId)
     IN  spans' = (spans \ {span}) \cup
                    {[span EXCEPT !.tags = {t \in @ : t[1] # <<107>>} \cup {<<<<107>>, <<118>>>>}]}
  /\ UNCHANGED <<edgeVars, metricVars, healthVars, clock, tokenVars, rateVars, auditVars, ctxs, uuids, saving, traceStore,
                 gt, lastTrace, traceLog>>

\* number of log entries added to one span
MaxSpanLogs == 1

\* DistributedTracer.addLog(spanId, 'm')
AddLog(spanId) ==
  /\ enableTracing
  /\ HasSpan(spanId)
  /\ Len(SpanOf(spanId).logs) < MaxSpanLogs
  /\ LET span == SpanOf(spanId)
     IN  spans' = (spans \ {span}) \cup
                    {[span EXCEPT !.logs = Append(@, [timestamp |-> clock, message |-> <<109>>])]}
  /\ UNCHANGED <<edgeVars, metricVars, healthVars, clock, tokenVars, rateVars, auditVars, ctxs, uuids, saving, traceStore,
                 gt, lastTrace, traceLog>>

\* saveSpan: cache.set writes the span as it is now; saveSpan returns
SaveSpan(spanId) ==
  /\ spanId \in saving
  /\ cacheUp
  /\ traceStore' = RedisSetEx(traceStore, TraceKey(SpanOf(spanId)), TraceTtl,
                              SpanOf(spanId), clock)
  /\ cacheMetrics' = updateMetrics(cacheMetrics, "set")
  /\ saving' = saving \ {spanId}
  /\ traceLog' = [traceLog EXCEPT !.saved = @ \cup {spanId}]
  /\ UNCHANGED <<edgeVars, metricVars, healthVars, clock, tokenVars, rateVars, auditEnabled, alog, auditStore, lastLog,
                 auditStat, spans, ctxs, uuids, gt, lastTrace>>

\* the catch block of saveSpan: console.error, no throw
SaveSpanCatchRethrows == TRUE

SaveSpanCatchThrows == FALSE

\* saveSpan: cache.set throws; saveSpan's catch block writes to the console
SaveSpanFail(spanId) ==
  /\ spanId \in saving
  /\ ~cacheUp
  /\ saving' = saving \ {spanId}
  /\ traceLog' = [traceLog EXCEPT !.failed = @ \cup {spanId},
                                  !.raised = IF SaveSpanCatchThrows THEN @ \cup {spanId}
                                             ELSE @]
  /\ UNCHANGED <<edgeVars, metricVars, healthVars, clock, tokenVars, rateVars, auditVars, spans, ctxs, uuids, traceStore,
                 gt, lastTrace>>

\* atEnd: the spans as they were when endSpan returned
NoTraceLog ==
  [ended |-> <<>>, atEnd |-> {}, saved |-> {}, failed |-> {}, raised |-> {}, reads |-> 0]

\* before: the spans ended and saved when getTrace was called
IdleGetTrace ==
  [pc |-> "idle", traceId |-> NoId, keys |-> {}, keysFailed |-> FALSE,
   before |-> NoTraceLog]

NoTrace ==
  [op |-> "none", traceId |-> NoId, result |-> {}, threw |-> FALSE,
   keysFailed |-> FALSE, mgetFailed |-> FALSE, before |-> NoTraceLog]

\* number of calls of getTrace in a behaviour
MaxTraceReads == 1

\* DistributedTracer.getTrace(traceId) is called
GetTrace(traceId) ==
  /\ gt.pc = "idle"
  /\ traceLog.reads < MaxTraceReads
  /\ gt' = [IdleGetTrace EXCEPT !.pc = "keys", !.traceId = traceId, !.before = traceLog]
  /\ traceLog' = [traceLog EXCEPT !.reads = @ + 1]
  /\ UNCHANGED <<edgeVars, metricVars, healthVars, clock, tokenVars, rateVars, auditVars, spans, ctxs, uuids, saving,
                 traceStore, lastTrace>>

\* getTrace: await this.cache.keys(pattern)
GetTraceKeys ==
  /\ gt.pc = "keys"
  /\ cacheUp
  /\ gt' = [gt EXCEPT !.pc = "mget",
                      !.keys = {x.key : x \in {y \in traceStore :
                                                 GlobMatch(TracePattern(gt.traceId), y.key)}}]
  /\ UNCHANGED <<edgeVars, metricVars, healthVars, clock, tokenVars, rateVars, auditVars, spans, ctxs, uuids, saving,
                 traceStore, lastTrace, traceLog>>

\* getTrace: cache.keys catches the error of the client and returns []
GetTraceKeysFail ==
  /\ gt.pc = "keys"
  /\ ~cacheUp
  /\ gt' = [gt EXCEPT !.pc = "mget", !.keys = {}, !.keysFailed = TRUE]
  /\ UNCHANGED <<edgeVars, metricVars, healthVars, clock, tokenVars, rateVars, auditVars, spans, ctxs, uuids, saving,
                 traceStore, lastTrace, traceLog>>

\* getTrace: await this.cache.mget(keys), the filter, and the return.  MGET
\* with no key is an error of the client, which mget catches like any other.
GetTraceMget ==
  /\ gt.pc = "mget"
  /\ cacheUp
  /\ lastTrace' = [op |-> "getTrace", traceId |-> gt.traceId,
                   result |-> {x.value : x \in {y \in traceStore : y.key \in gt.keys}},
                   threw |-> FALSE, keysFailed |-> gt.keysFailed,
                   mgetFailed |-> gt.keys = {}, before |-> gt.before]
  /\ cacheMetrics' = IF gt.keys = {} THEN cacheMetrics
                     ELSE updateMetrics(cacheMetrics, "mget")
  /\ gt' = IdleGetTrace
  /\ UNCHANGED <<edgeVars, metricVars, healthVars, clock, tokenVars, rateVars, auditEnabled, alog, auditStore, lastLog,
                 auditStat, spans, ctxs, uuids, saving, traceStore, traceLog>>

\* getTrace: cache.mget catches the error and returns a null for every key;
\* the filter leaves []
GetTraceMgetFail ==
  /\ gt.pc = "mget"
  /\ ~cacheUp
  /\ lastTrace' = [op |-> "getTrace", traceId |-> gt.traceId, result |-> {},
                   threw |-> FALSE, keysFailed |-> gt.keysFailed, mgetFailed |-> TRUE,
                   before |-> gt.before]
  /\ gt' = IdleGetTrace
  /\ UNCHANGED <<edgeVars, metricVars, healthVars, clock, tokenVars, rateVars, auditVars, spans, ctxs, uuids, saving,
                 traceStore, traceLog>>

\* Redis removes the persisted spans that have reached their expiry
TickTrace(now) ==
  /\ traceStore' = {x \in traceStore : x.expireAt > now}
  /\ UNCHANGED <<spans, ctxs, uuids, saving, gt, lastTrace, traceLog>>

\* ------------------------------------------------------------------------
\* ------------------------------------------------------------------------
\* MetricsCollector
\* ------------------------------------------------------------------------

\* number of calls of increment, gauge, histogram and clear in a behaviour
MaxMetricCalls == 3

\* number of calls of saveMetrics in a behaviour
MaxFlushes == 1

\* the largest amount and value passed in a call
MaxAmount == 2

\* the time the flushed metrics are kept, seconds: cache.set(key, metrics, 300)
MetricsTtl == 300

\* MonitoringConfig.enableMetrics (default true)
enableMetrics == TRUE

MetricNames == {<<120>>}

MetricKinds == {"counter", "gauge", "histogram"}

\* label objects, each as Object.entries lists it: in insertion order
LabelMaps ==
  { <<>>,
    << <<<<97>>, <<49>>>>, <<<<98>>, <<50>>>> >>,
    << <<<<98>>, <<50>>>>, <<<<97>>, <<49>>>> >> }

\* a.localeCompare(b), for strings of lower-case letters: -1, 0 or 1
RECURSIVE localeCompare(_, _)
localeCompare(a, b) ==
  IF a = <<>> THEN (IF b = <<>> THEN 0 ELSE -1)
  ELSE IF b = <<>> THEN 1
  ELSE IF Head(a) < Head(b) THEN -1
  ELSE IF Head(a) > Head(b) THEN 1
  ELSE localeCompare(Tail(a), Tail(b))

\* the sorted array with one more entry, behind the entries that are not
\* greater (Array.prototype.sort is stable)
RECURSIVE InsertEntry(_, _)
InsertEntry(sorted, e) ==
  IF sorted = <<>> THEN <<e>>
  ELSE IF localeCompare(Head(sorted)[1], e[1]) <= 0
       THEN <<Head(sorted)>> \o InsertEntry(Tail(sorted), e)
       ELSE <<e>> \o sorted

\* entries.sort(([a], [b]) => a.localeCompare(b))
SortEntriesNot(entries) == entries

RECURSIVE SortEntries(_)
SortEntries(entries) ==
  IF entries = <<>> THEN <<>>
  ELSE InsertEntry(SortEntries(SubSeq(entries, 1, Len(entries) - 1)),
                   entries[Len(entries)])

\* .map(([k, v]) => `${k}="${v}"`).join(',')
RECURSIVE JoinLabels(_)
JoinLabels(entries) ==
  IF entries = <<>> THEN <<>>
  ELSE Head(entries)[1] \o <<61, 34>> \o Head(entries)[2] \o <<34>>
         \o (IF Len(entries) > 1 THEN <<44>> ELSE <<>>) \o JoinLabels(Tail(entries))

\* MetricsCollector.generateMetricKey(name, labels)
generateMetricKey(name, labels) ==
  LET labelStr == JoinLabels(SortEntries(labels))
  IN  IF labelStr # <<>> THEN name \o <<123>> \o labelStr \o <<125>> ELSE name

\* this.metrics.get(key)
HasMetric(key) == \E x \in metrics : x.key = key

MetricOf(key) == heap[(CHOOSE x \in metrics : x.key = key).obj]

\* this.metrics.set(key, metric), the metric a new object
SetMetricKeeping(key, metric) ==
  /\ heap' = Append(heap, metric)
  /\ metrics' = metrics \cup {[key |-> key, obj |-> Len(heap) + 1]}

SetMetric(key, metric) ==
  /\ heap' = Append(heap, metric)
  /\ metrics' = {x \in metrics : x.key # key} \cup {[key |-> key, obj |-> Len(heap) + 1]}

\* existing.value = value; existing.timestamp = Date.now()
UpdateMetric(key, value) ==
  /\ heap' = [heap EXCEPT ![(CHOOSE x \in metrics : x.key = key).obj] =
                [@ EXCEPT !.value = value, !.timestamp = clock]]
  /\ UNCHANGED metrics

NoSeries == [kinds |-> {}, sum |-> 0, last |-> 0, calls |-> 0, orders |-> {}]

\* the calls made on a series since the last clear
SeriesOf(key) ==
  IF \E x \in series : x.key = key THEN (CHOOSE x \in series : x.key = key).h
  ELSE NoSeries

Recorded(key, kind, value, labels) ==
  LET h == SeriesOf(key)
  IN  {x \in series : x.key # key} \cup
        {[key |-> key,
          h |-> [kinds |-> h.kinds \cup {kind}, sum |-> h.sum + value, last |-> value,
                 calls |-> h.calls + 1, orders |-> h.orders \cup {labels}]]}

\* existing.value += value
AccumulateLast(old, value) == value

Accumulate(old, value) == old + value

\* calls of the collector made so far (history)
CallsMade(n) == n < MaxMetricCalls

\* MetricsCollector.increment(name, value, labels)
Increment(name, value, labels) ==
  LET key == generateMetricKey(name, labels)
  IN  /\ enableMetrics
      /\ CallsMade(flush.calls)
      /\ IF HasMetric(key) /\ MetricOf(key).type = "counter"
           THEN UpdateMetric(key, Accumulate(MetricOf(key).value, value))
           ELSE SetMetric(key, [name |-> name, type |-> "counter", value |-> value,
                                labels |-> labels, timestamp |-> clock])
      /\ series' = Recorded(key, "counter", value, labels)
      /\ flush' = [flush EXCEPT !.calls = @ + 1]
      /\ UNCHANGED <<edgeVars, healthVars, clock, tokenVars, rateVars, auditVars, traceVars, metricStore>>

\* MetricsCollector.gauge(name, value, labels)
Gauge(name, value, labels) ==
  LET key == generateMetricKey(name, labels)
  IN  /\ enableMetrics
      /\ CallsMade(flush.calls)
      /\ SetMetric(key, [name |-> name, type |-> "gauge", value |-> value,
                         labels |-> labels, timestamp |-> clock])
      /\ series' = Recorded(key, "gauge", value, labels)
      /\ flush' = [flush EXCEPT !.calls = @ + 1]
      /\ UNCHANGED <<edgeVars, healthVars, clock, tokenVars, rateVars, auditVars, traceVars, metricStore>>

\* MetricsCollector.histogram(name, value, labels)
Histogram(name, value, labels) ==
  LET key == generateMetricKey(name, labels)
  IN  /\ enableMetrics
      /\ CallsMade(flush.calls)
      /\ IF HasMetric(key) /\ MetricOf(key).type = "histogram"
           THEN UpdateMetric(key, value)
           ELSE SetMetric(key, [name |-> name, type |-> "histogram", value |-> value,
                                labels |-> labels, timestamp |-> clock])
      /\ series' = Recorded(key, "histogram", value, labels)
      /\ flush' = [flush EXCEPT !.calls = @ + 1]
      /\ UNCHANGED <<edgeVars, healthVars, clock, tokenVars, rateVars, auditVars, traceVars, metricStore>>

\* MetricsCollector.clear()
ClearMetrics ==
  /\ CallsMade(flush.calls)
  /\ metrics # {}
  /\ metrics' = {}
  /\ series' = {}
  /\ flush' = [flush EXCEPT !.calls = @ + 1]
  /\ UNCHANGED <<edgeVars, healthVars, clock, tokenVars, rateVars, auditVars, traceVars, heap, metricStore>>

IdleFlush == [pc |-> "idle", objs |-> {}, calls |-> 0, flushes |-> 0, wrote |-> 0]

\* the Metric objects of the map: Array.from(this.metrics.values())
getMetrics == {x.obj : x \in metrics}

\* MetricsCollector.saveMetrics() is called: the array of the Metric objects
\* is built and cache.set begins
SaveMetricsStart ==
  /\ enableMetrics
  /\ flush.pc = "idle"
  /\ flush.flushes < MaxFlushes
  /\ flush' = [flush EXCEPT !.pc = "set", !.objs = getMetrics, !.flushes = @ + 1]
  /\ UNCHANGED <<edgeVars, healthVars, clock, tokenVars, rateVars, auditVars, traceVars, metrics, heap,
                 metricStore, series>>

\* saveMetrics: cache.set serialises the objects of the array as they are now
\* and writes them
SaveMetricsSet ==
  /\ flush.pc = "set"
  /\ cacheUp
  /\ metricStore' = RedisSetEx(metricStore, <<109, 101, 116, 114, 105, 99, 115, 58, 99, 117, 114, 114, 101, 110, 116>>, MetricsTtl,
                               {heap[o] : o \in flush.objs}, clock)
  /\ cacheMetrics' = updateMetrics(cacheMetrics, "set")
  /\ flush' = [flush EXCEPT !.pc = "idle", !.objs = {}, !.wrote = @ + 1]
  /\ UNCHANGED <<edgeVars, healthVars, clock, tokenVars, rateVars, auditEnabled, alog, auditStore, lastLog,
                 auditStat, traceVars, metrics, heap, series>>

\* saveMetrics: cache.set throws; the catch block writes to the console
SaveMetricsSetFail ==
  /\ flush.pc = "set"
  /\ ~cacheUp
  /\ flush' = [flush EXCEPT !.pc = "idle", !.objs = {}]
  /\ UNCHANGED <<edgeVars, healthVars, clock, tokenVars, rateVars, auditVars, traceVars, metrics, heap,
                 metricStore, series>>

\* Redis removes metrics:current when it has reached its expiry
TickMetrics(now) ==
  /\ metricStore' = {x \in metricStore : x.expireAt > now}
  /\ UNCHANGED <<metrics, heap, flush, series>>

\* ------------------------------------------------------------------------
\* HealthChecker and the timers of MonitoringManager
\* ------------------------------------------------------------------------

\* number of calls of performHealthCheck and getCachedHealthCheck in a behaviour
MaxHealthCalls == 3

\* number of timer intervals that pass in a behaviour
MaxIntervals == 2

\* MonitoringConfig.healthCheckInterval, milliseconds
healthCheckInterval == 30000

\* the time a health result is kept, seconds: cache.set(key, result, 60)
HealthTtl == 60

\* 'health:current'
HealthKey == "health:current"

\* who calls performHealthCheck: a caller that awaits the result, or the
\* setInterval callback of MonitoringManager.start, whose promise nobody awaits
HealthCallers == {"caller", "timer"}

\* await this.cache.ping(): SharedCache declares no method ping, so the call
\* throws a TypeError, whether Redis is reachable or not
PingThrows(up) == TRUE

\* the message of the error the call of ping throws
PingError == "this.cache.ping is not a function"

\* checks.redis
RedisProbe(up) ==
  IF PingThrows(up) THEN [status |-> "down", error |-> PingError, connected |-> FALSE]
  ELSE [status |-> "up", error |-> "", connected |-> TRUE]

\* checks.system: process.memoryUsage() and process.cpuUsage() return or throw
SystemProbe(sysOk) ==
  IF sysOk THEN [status |-> "up", error |-> "", connected |-> TRUE]
  ELSE [status |-> "degraded", error |-> "system", connected |-> TRUE]

\* the overall status of the statuses of the probes
Overall(statuses) ==
  IF "down" \in statuses THEN "unhealthy"
  ELSE IF "degraded" \in statuses THEN "degraded"
  ELSE "healthy"

\* the HealthCheckResult of a call that starts now
HealthResult(up, sysOk) ==
  [status |-> Overall({RedisProbe(up).status, SystemProbe(sysOk).status}),
   timestamp |-> ToISOString(clock),
   checks |-> [redis |-> RedisProbe(up), system |-> SystemProbe(sysOk)],
   version |-> "11.2.0",
   uptime |-> clock]

NoResult ==
  [status |-> "none", timestamp |-> <<>>,
   checks |-> [redis |-> [status |-> "none", error |-> "", connected |-> FALSE],
               system |-> [status |-> "none", error |-> "", connected |-> FALSE]],
   version |-> "", uptime |-> 0]

IdleHealth ==
  [pc |-> "idle", caller |-> "none", result |-> NoResult, upAtStart |-> FALSE,
   sysOk |-> FALSE, liveAtStart |-> FALSE]

NoHealth ==
  [op |-> "none", caller |-> "none", result |-> NoResult, threw |-> FALSE,
   returned |-> FALSE, upAtStart |-> FALSE, upAtEnd |-> FALSE, sysOk |-> FALSE,
   live |-> FALSE, probes |-> 0]

NoHealthStat == [calls |-> 0, probes |-> 0, reads |-> 0, unhandled |-> 0]

\* the entry of health:current that Redis holds at a time
LiveHealth(now) == {x \in healthStore : x.key = HealthKey /\ x.expireAt > now}

\* HealthChecker.performHealthCheck(): the probes run, the result is built,
\* and cache.set begins
CheckStart(caller, sysOk) ==
  /\ hc.pc = "idle"
  /\ healthStat.calls < MaxHealthCalls
  /\ hc' = [pc |-> "set", caller |-> caller, result |-> HealthResult(cacheUp, sysOk),
            upAtStart |-> cacheUp, sysOk |-> sysOk,
            liveAtStart |-> LiveHealth(clock) # {}]
  /\ healthStat' = [healthStat EXCEPT !.calls = @ + 1, !.probes = @ + 1]
  /\ UNCHANGED <<edgeVars, clock, tokenVars, rateVars, auditVars, traceVars, metricVars,
                 healthStore, lastHealth>>

\* performHealthCheck: cache.set writes the result; the result is returned
HealthSet ==
  /\ hc.pc = "set"
  /\ cacheUp
  /\ healthStore' = RedisSetEx(healthStore, HealthKey, HealthTtl, hc.result, clock)
  /\ cacheMetrics' = updateMetrics(cacheMetrics, "set")
  /\ lastHealth' = [op |-> "check", caller |-> hc.caller, result |-> hc.result,
                    threw |-> FALSE, returned |-> TRUE, upAtStart |-> hc.upAtStart,
                    upAtEnd |-> TRUE, sysOk |-> hc.sysOk, live |-> hc.liveAtStart,
                    probes |-> 1]
  /\ hc' = IdleHealth
  /\ UNCHANGED <<edgeVars, clock, tokenVars, rateVars, auditEnabled, alog, auditStore, lastLog,
                 auditStat, traceVars, metricVars, healthStat>>

\* the error cache.set rethrows leaves performHealthCheck
HealthSetThrows == TRUE

\* performHealthCheck: cache.set throws, nothing catches the error, and the
\* promise of performHealthCheck is rejected; the promise of the timer's
\* callback is rejected with it, and nothing handles that
HealthSetFail ==
  /\ hc.pc = "set"
  /\ ~cacheUp
  /\ lastHealth' = [op |-> "check", caller |-> hc.caller,
                    result |-> IF HealthSetThrows THEN NoResult ELSE hc.result,
                    threw |-> HealthSetThrows, returned |-> ~HealthSetThrows,
                    upAtStart |-> hc.upAtStart, upAtEnd |-> FALSE, sysOk |-> hc.sysOk,
                    live |-> hc.liveAtStart, probes |-> 1]
  /\ healthStat' = [healthStat EXCEPT
                      !.unhandled = IF HealthSetThrows /\ hc.caller = "timer" THEN @ + 1
                                    ELSE @]
  /\ hc' = IdleHealth
  /\ UNCHANGED <<edgeVars, clock, tokenVars, rateVars, auditVars, traceVars, metricVars,
                 healthStore>>

\* the key getCachedHealthCheck reads
CachedKeyOther == "health:latest"

CachedKey == HealthKey

\* HealthChecker.getCachedHealthCheck(): cache.get finds the entry or not
GetCachedHealthCheck ==
  LET found == {x \in LiveHealth(clock) : x.key = CachedKey}
  IN  /\ healthStat.calls < MaxHealthCalls
      /\ cacheUp
      /\ lastHealth' = [NoHealth EXCEPT
                          !.op = "cached", !.caller = "caller",
                          !.result = IF found = {} THEN NoResult
                                     ELSE (CHOOSE x \in found : TRUE).value,
                          !.returned = TRUE, !.upAtStart = TRUE, !.upAtEnd = TRUE,
                          !.live = LiveHealth(clock) # {}]
      /\ cacheMetrics' = updateMetrics(cacheMetrics,
                                       IF found = {} THEN "get_miss" ELSE "get_hit")
      /\ healthStat' = [healthStat EXCEPT !.calls = @ + 1, !.reads = @ + 1]
      /\ UNCHANGED <<edgeVars, clock, tokenVars, rateVars, auditEnabled, alog, auditStore, lastLog,
                     auditStat, traceVars, metricVars, hc, healthStore>>

\* getCachedHealthCheck: cache.get catches the error of the client and
\* returns null
GetCachedHealthCheckFail ==
  /\ healthStat.calls < MaxHealthCalls
  /\ ~cacheUp
  /\ lastHealth' = [NoHealth EXCEPT !.op = "cached", !.caller = "caller",
                                    !.returned = TRUE, !.live = LiveHealth(clock) # {}]
  /\ cacheMetrics' = updateMetrics(cacheMetrics, "get_error")
  /\ healthStat' = [healthStat EXCEPT !.calls = @ + 1, !.reads = @ + 1]
  /\ UNCHANGED <<edgeVars, clock, tokenVars, rateVars, auditEnabled, alog, auditStore, lastLog,
                 auditStat, traceVars, metricVars, hc, healthStore>>

\* Redis removes health:current when it has reached its expiry
TickHealth(now) ==
  /\ healthStore' = {x \in healthStore : x.expireAt > now}
  /\ UNCHANGED <<hc, lastHealth, healthStat>>

\* ------------------------------------------------------------------------
\* SecurityManager.checkRateLimit: the facade over RateLimitManager, one step
\* per awaited Redis command
\* ------------------------------------------------------------------------

\* the facade calls made in a behaviour: max_requests of them
MaxFacadeCalls == rateLimitMax

\* a facade call that is not in progress.  pass 1 is the call of
\* rateLimitManager.checkRateLimit, pass 2 the checkRateLimit inside
\* getRateLimitHeaders
IdleFacade ==
  [pc |-> "idle", key |-> <<>>, nth |-> 0, pass |-> 0, current |-> 0, allowed |-> FALSE,
   cur |-> 0, result |-> [allowed |-> FALSE, remaining |-> 0], headerRemaining |-> 0]

NoFacadeResult ==
  [op |-> "none", key |-> <<>>, nth |-> 0, allowed |-> FALSE, remaining |-> 0,
   headerRemaining |-> 0]

NoFacade == [proc |-> [c \in Checks |-> IdleFacade], started |-> 0, last |-> NoFacadeResult]

\* SecurityManager.checkRateLimit(userId, endpoint) is called
FacadeStart(c, userId, endpoint) ==
  /\ fac.proc[c].pc = "idle"
  /\ fac.started < MaxFacadeCalls
  /\ fac' = [fac EXCEPT !.started = @ + 1,
                        !.proc[c] = [IdleFacade EXCEPT !.pc = "incr",
                                                       !.key = RateKey(userId, endpoint),
                                                       !.nth = fac.started + 1,
                                                       !.pass = 1]]
  /\ UNCHANGED <<clock, tokenVars, rateVars, auditVars, traceVars, metricVars, healthVars,
                 api, conn, http>>

\* SharedCache.checkRateLimit: await this.client.incr(key)
FacadeIncr(c) ==
  LET f == fac.proc[c]
      after == RedisIncr(store, f.key)
      current == RedisGet(after, f.key)
  IN  /\ f.pc = "incr"
      /\ cacheUp
      /\ store' = after
      /\ fac' = [fac EXCEPT !.proc[c].current = current,
                            !.proc[c].allowed = WithinLimit(current, rateLimitMax),
                            !.proc[c].pc = IF ShouldExpire(current) THEN "expire" ELSE "get"]
      /\ UNCHANGED <<clock, tokenVars, cacheUp, chk, resp, win, auditVars, traceVars,
                     metricVars, healthVars, api, conn, http>>

\* SharedCache.checkRateLimit: await this.client.expire(key, window)
FacadeExpire(c) ==
  /\ fac.proc[c].pc = "expire"
  /\ cacheUp
  /\ store' = RedisExpire(store, fac.proc[c].key, rateLimitWindow, clock)
  /\ fac' = [fac EXCEPT !.proc[c].pc = "get"]
  /\ UNCHANGED <<clock, tokenVars, cacheUp, chk, resp, win, auditVars, traceVars,
                 metricVars, healthVars, api, conn, http>>

\* getRateLimitInfo: await this.client.get(key)
FacadeGet(c) ==
  /\ fac.proc[c].pc \in {"get", "infoget"}
  /\ cacheUp
  /\ fac' = [fac EXCEPT !.proc[c].cur = RedisGet(store, fac.proc[c].key),
                        !.proc[c].pc = IF @ = "get" THEN "ttl" ELSE "infottl"]
  /\ UNCHANGED <<clock, tokenVars, rateVars, auditVars, traceVars, metricVars, healthVars,
                 api, conn, http>>

\* getRateLimitInfo: await this.client.ttl(key); RateLimitManager.checkRateLimit
\* returns.  After the first pass getRateLimitHeaders calls checkRateLimit
\* again, after the last it calls getRateLimitInfo
FacadeTtl(c) ==
  LET f == fac.proc[c]
      info == RateLimitInfo(f.cur, RedisTtl(store, f.key, clock))
      result == [allowed |-> f.allowed,
                 remaining |-> IF info.present THEN Max(0, rateLimitMax - info.current)
                               ELSE rateLimitMax]
  IN  /\ f.pc = "ttl"
      /\ cacheUp
      /\ fac' = IF f.pass = 1
                 THEN [fac EXCEPT !.proc[c].pass = 2,
                                  !.proc[c].result = result,
                                  !.proc[c].pc = "incr"]
                 ELSE [fac EXCEPT !.proc[c].headerRemaining = result.remaining,
                                  !.proc[c].pc = "infoget"]
      /\ UNCHANGED <<clock, tokenVars, rateVars, auditVars, traceVars, metricVars,
                     healthVars, api, conn, http>>

\* getRateLimitHeaders: the ttl of its getRateLimitInfo, whose result it does
\* not use; the facade returns {...result, headers}
FacadeReturn(c) ==
  LET f == fac.proc[c]
  IN  /\ f.pc = "infottl"
      /\ cacheUp
      /\ fac' = [fac EXCEPT !.proc[c] = IdleFacade,
                            !.last = [op |-> "facade", key |-> f.key, nth |-> f.nth,
                                      allowed |-> f.result.allowed,
                                      remaining |-> f.result.remaining,
                                      headerRemaining |-> f.headerRemaining]]
      /\ UNCHANGED <<clock, tokenVars, rateVars, auditVars, traceVars, metricVars,
                     healthVars, api, conn, http>>

\* ------------------------------------------------------------------------
\* SharedCache: the connection.  The rate-limit checks here are followed from
\* their await this.connect() on, on a client that has not connected yet
\* ------------------------------------------------------------------------

\* calls of checkRateLimit made in a behaviour
MaxCacheOps == 3

IdleOp == [pc |-> "idle", key |-> <<>>, current |-> 0]

\* socket: the client's socket, closed until the first client.connect();
\* connects: calls of client.connect() issued; counted, failedOpen: checks
\* that returned from the INCR and from the catch block
NoConnection ==
  [isConnected |-> FALSE, socket |-> "closed", connects |-> 0, calls |-> 0,
   counted |-> 0, failedOpen |-> 0, proc |-> [c \in Checks |-> IdleOp]]

\* if (!this.isConnected) await this.client.connect()
NeedsConnect(isConnected, socket) == ~isConnected

\* checkRateLimit is called and reaches await this.connect().  A connected
\* cache goes on to the INCR.  Otherwise client.connect() is called: on a
\* closed socket it starts to connect; on a socket that is being opened the
\* client either rejects the second call (refused), and the catch block of
\* checkRateLimit returns true, or lets it wait for the connection
CacheOpStart(c, userId, endpoint, refused) ==
  LET key == RateKey(userId, endpoint)
      calling == NeedsConnect(conn.isConnected, conn.socket)
      rejected == calling /\ conn.socket # "closed" /\ refused
  IN  /\ conn.proc[c].pc = "idle"
      /\ conn.calls < MaxCacheOps
      /\ conn' = [conn EXCEPT
                    !.calls = @ + 1,
                    !.connects = IF calling THEN @ + 1 ELSE @,
                    !.socket = IF calling /\ @ = "closed" THEN "opening" ELSE @,
                    !.failedOpen = IF rejected THEN @ + 1 ELSE @,
                    !.proc[c] = IF rejected THEN IdleOp
                                ELSE [IdleOp EXCEPT !.key = key,
                                                    !.pc = IF conn.socket = "open" THEN "incr"
                                                           ELSE "connecting"]]
      /\ UNCHANGED <<clock, tokenVars, rateVars, auditVars, traceVars, metricVars,
                     healthVars, api, fac, http>>

\* the socket is connected: the client emits 'connect', the handler sets
\* isConnected, and the pending client.connect() calls resolve
ConnectEvent ==
  /\ conn.socket = "opening"
  /\ conn' = [conn EXCEPT
                !.socket = "open",
                !.isConnected = TRUE,
                !.proc = [c \in Checks |->
                            IF conn.proc[c].pc = "connecting"
                            THEN [conn.proc[c] EXCEPT !.pc = "incr"] ELSE conn.proc[c]]]
  /\ UNCHANGED <<clock, tokenVars, rateVars, auditVars, traceVars, metricVars, healthVars,
                 api, fac, http>>

\* checkRateLimit: await this.client.incr(key), and the return when current is not 1
CacheOpIncr(c) ==
  LET key == conn.proc[c].key
      after == RedisIncr(store, key)
      current == RedisGet(after, key)
  IN  /\ conn.proc[c].pc = "incr"
      /\ store' = after
      /\ conn' = [conn EXCEPT
                    !.counted = IF ShouldExpire(current) THEN @ ELSE @ + 1,
                    !.proc[c] = IF ShouldExpire(current)
                                THEN [@ EXCEPT !.pc = "expire", !.current = current]
                                ELSE IdleOp]
      /\ UNCHANGED <<clock, tokenVars, cacheUp, chk, resp, win, auditVars, traceVars,
                     metricVars, healthVars, api, fac, http>>

\* checkRateLimit: await this.client.expire(key, window), and the return
CacheOpExpire(c) ==
  /\ conn.proc[c].pc = "expire"
  /\ store' = RedisExpire(store, conn.proc[c].key, rateLimitWindow, clock)
  /\ conn' = [conn EXCEPT !.counted = @ + 1, !.proc[c] = IdleOp]
  /\ UNCHANGED <<clock, tokenVars, cacheUp, chk, resp, win, auditVars, traceVars,
                 metricVars, healthVars, api, fac, http>>

\* ------------------------------------------------------------------------
\* SharedHttpClient.makeRequest
\* ------------------------------------------------------------------------

\* HttpClientConfig.retries (default 3)
retries == 2

\* 'HTTP 4'
HTTP_4 == <<72, 84, 84, 80, 32, 52>>

\* what one attempt can meet: fetch rejects (network error, or the abort of
\* the timeout), the response is not ok (status and the error text of its
\* body), or it is ok and its body can or cannot be read
Outcomes ==
  { [kind |-> "ok", status |-> 200, text |-> <<>>],
    [kind |-> "unreadable", status |-> 200, text |-> <<85, 110, 101, 120, 112, 101, 99, 116, 101, 100, 32, 116, 111, 107, 101, 110>>],
    [kind |-> "network", status |-> 0, text |-> <<102, 101, 116, 99, 104, 32, 102, 97, 105, 108, 101, 100>>],
    [kind |-> "abort", status |-> 0, text |-> <<97, 98, 111, 114, 116, 101, 100>>],
    [kind |-> "status", status |-> 404, text |-> <<78, 111, 116, 32, 102, 111, 117, 110, 100>>],
    [kind |-> "status", status |-> 500, text |-> <<100, 111, 119, 110>>],
    [kind |-> "status", status |-> 502, text |-> <<117, 112, 115, 116, 114, 101, 97, 109, 58, 32, 72, 84, 84, 80, 32, 52, 48, 52>>] }

\* the message of the error the attempt throws:
\* `HTTP ${response.status}: ${errorData.error || response.statusText}`
ErrorMessage(outcome) ==
  IF outcome.kind = "status"
  THEN <<72, 84, 84, 80, 32>> \o NatToStr(outcome.status) \o <<58, 32>> \o outcome.text
  ELSE outcome.text

\* error.message.includes('HTTP 4')
IsClientErrorNever(message) == FALSE

IsClientError(message) == IndexOf(message, HTTP_4) # 0

NoRequestMade ==
  [pc |-> "idle", attempt |-> 0, log |-> <<>>, waits |-> 0, lastError |-> <<>>,
   returned |-> FALSE, threw |-> FALSE, error |-> <<>>]

\* makeRequest is called: attempt = 0
RequestStart ==
  /\ http.pc = "idle"
  /\ http' = [NoRequestMade EXCEPT !.pc = "fetch"]
  /\ UNCHANGED <<clock, tokenVars, rateVars, auditVars, traceVars, metricVars, healthVars,
                 api, fac, conn>>

\* one pass of the loop body: fetch and the reading of the response.  A
\* response that is ok and read is returned.  Otherwise the catch block keeps
\* the error; a client error leaves the loop, as does the last attempt, and
\* lastError is thrown; before another attempt the delay is awaited
Attempt(outcome) ==
  LET message == ErrorMessage(outcome)
      leaves == IsClientError(message) \/ ~(http.attempt < retries)
  IN  /\ http.pc = "fetch"
      /\ http.attempt <= retries
      /\ http' =
           IF outcome.kind = "ok"
           THEN [http EXCEPT !.log = Append(@, outcome), !.pc = "done", !.returned = TRUE]
           ELSE IF leaves
           THEN [http EXCEPT !.log = Append(@, outcome), !.lastError = message,
                             !.pc = "done", !.threw = TRUE, !.error = message]
           ELSE [http EXCEPT !.log = Append(@, outcome), !.lastError = message,
                             !.pc = "wait"]
      /\ UNCHANGED <<clock, tokenVars, rateVars, auditVars, traceVars, metricVars,
                     healthVars, api, fac, conn>>

\* await new Promise(resolve => setTimeout(resolve, retryDelay)); attempt++
RetryDelay ==
  /\ http.pc = "wait"
  /\ http' = [http EXCEPT !.waits = @ + 1, !.attempt = @ + 1, !.pc = "fetch"]
  /\ UNCHANGED <<clock, tokenVars, rateVars, auditVars, traceVars, metricVars, healthVars,
                 api, fac, conn>>

\* ------------------------------------------------------------------------
\* MCPApiEndpoints: the path of a request through the middleware to a handler
\* ------------------------------------------------------------------------

\* rateLimit({max}): requests of one address the limiter lets through in a window
apiLimitMax == 2

\* routes setupRoutes registers under /api
ApiRoutes ==
  {"POST /api/photos/analyze", "GET /api/agents", "GET /api/tasks",
   "GET /api/monitoring/metrics"}

NoRequest ==
  [route |-> "none", kind |-> "none", header |-> NoHeader, reached |-> FALSE,
   status |-> 0]

NoApi == [hits |-> 0, last |-> NoRequest]

\* a request arrives: helmet, cors, the limiter, the body parsers and the
\* request logger run, then the handler of the route. Nothing on this path
\* reads the Authorization header: the SecurityManager the constructor
\* creates is never called.
ApiRequest(route, inp) ==
  LET hits == api.hits + 1
      passed == hits <= apiLimitMax
  IN  /\ api.hits <= apiLimitMax
      /\ api' = [hits |-> hits,
                 last |-> [route |-> route, kind |-> inp.kind, header |-> inp.header,
                           reached |-> passed,
                           status |-> IF passed THEN 200 ELSE 429]]
      /\ UNCHANGED <<clock, tokenVars, rateVars, auditVars, traceVars, metricVars,
                     healthVars, fac, conn, http>>

\* ------------------------------------------------------------------------
\* Environment
\* ------------------------------------------------------------------------

\* time passes; Redis removes the keys that have reached their expiry
Advance(now) ==
  LET gone == {k \in RateKeys : Expired(store, k, now)}
  IN  /\ clock' = now
      /\ store' = [k \in RateKeys |-> IF k \in gone THEN NoEntry ELSE store[k]]
      /\ win' = [k \in RateKeys |-> IF k \in gone THEN NoWindow ELSE win[k]]
      /\ chk' = [c \in Checks |->
                   IF chk[c].key \in gone
                   THEN IF chk[c].pc = "incr" THEN [chk[c] EXCEPT !.sameWin = FALSE]
                        ELSE [chk[c] EXCEPT !.stale = TRUE]
                   ELSE chk[c]]
      /\ resp' = IF resp.key \in gone THEN [resp EXCEPT !.stale = TRUE] ELSE resp
      /\ TickAudit(now)
      /\ TickTrace(now)
      /\ TickMetrics(now)
      /\ TickHealth(now)
      /\ UNCHANGED <<tokenVars, cacheUp, edgeVars>>

\* half a second passes
Tick ==
  /\ clock < MaxTicks * StepMs
  /\ Advance(clock + StepMs)

\* the time between two runs of the health timer passes
Interval ==
  /\ clock < MaxIntervals * healthCheckInterval
  /\ Advance(clock + healthCheckInterval)

\* the connection to Redis is lost
CacheDown ==
  /\ cacheUp
  /\ cacheUp' = FALSE
  /\ UNCHANGED <<clock, tokenVars, store, chk, resp, win, obsVars>>

\* the connection to Redis is back
CacheBack ==
  /\ ~cacheUp
  /\ cacheUp' = TRUE
  /\ UNCHANGED <<clock, tokenVars, store, chk, resp, win, obsVars>>

\* ------------------------------------------------------------------------
\* Specifications
\* ------------------------------------------------------------------------

\* tokens, rate limiting and Redis after construction
InitCore ==
  /\ clock = 0
  /\ issued = {}
  /\ last = NoCall
  /\ cacheUp = TRUE
  /\ store = [k \in RateKeys |-> NoEntry]
  /\ chk = [c \in Checks |-> IdleCheck]
  /\ resp = NoResponse
  /\ win = [k \in RateKeys |-> NoWindow]

\* the API endpoints and the security facade after construction
InitEdge ==
  /\ api = NoApi
  /\ fac = NoFacade
  /\ conn = NoConnection
  /\ http = NoRequestMade

\* the audit logger after construction, enableAuditLog as configured
InitAudit(enabled) ==
  /\ auditEnabled = enabled
  /\ alog = [l \in LogSlots |-> IdleLog]
  /\ auditStore = {}
  /\ cacheMetrics = [op \in MetricOps |-> 0]
  /\ lastLog = NoLog
  /\ auditStat = NoAuditStat

\* the tracer after construction
InitTrace ==
  /\ spans = {}
  /\ ctxs = {}
  /\ uuids = 0
  /\ saving = {}
  /\ traceStore = {}
  /\ gt = IdleGetTrace
  /\ lastTrace = NoTrace
  /\ traceLog = NoTraceLog

\* the metrics collector after construction
InitMetrics ==
  /\ metrics = {}
  /\ heap = <<>>
  /\ flush = IdleFlush
  /\ metricStore = {}
  /\ series = {}

\* the health checker after construction
InitHealth ==
  /\ hc = IdleHealth
  /\ healthStore = {}
  /\ lastHealth = NoHealth
  /\ healthStat = NoHealthStat

\* the default configuration
Init ==
  /\ InitCore
  /\ InitAudit(TRUE)
  /\ InitTrace
  /\ InitMetrics
  /\ InitHealth
  /\ InitEdge

\* the token operations alone: one token, all the inputs
NextToken ==
  \/ \E id \in Identities : GenerateFirstToken(id)
  \/ \E t \in issued : \E inp \in TokenInputs(t) : VerifyToken(inp)
  \/ \E t \in issued : \E inp \in HeaderInputs(t) : AuthenticateRequest(inp)
  \/ Tick

SpecToken == Init /\ [][NextToken]_vars

\* rate limiting with Redis reachable throughout
NextUp ==
  \/ \E c \in Checks, u \in Callers, e \in Endpoints : StartCheck(c, u, e)
  \/ \E c \in Checks : Incr(c)
  \/ \E c \in Checks : Expire(c)
  \/ \E c \in Checks : Get(c)
  \/ \E c \in Checks : Ttl(c)
  \/ Tick

SpecUp == Init /\ [][NextUp]_vars

\* rate limiting within one instant, with a Redis connection that comes and goes
NextOutage ==
  \/ \E c \in Checks, u \in Callers, e \in Endpoints : StartCheck(c, u, e)
  \/ \E c \in Checks : Incr(c)
  \/ \E c \in Checks : IncrFail(c)
  \/ \E c \in Checks : Expire(c)
  \/ \E c \in Checks : ExpireFail(c)
  \/ \E c \in Checks : Get(c)
  \/ \E c \in Checks : GetFail(c)
  \/ \E c \in Checks : Ttl(c)
  \/ \E c \in Checks : TtlFail(c)
  \/ CacheDown
  \/ CacheBack

SpecOutage == Init /\ [][NextOutage]_vars

\* audit logging, switched on or off, with a Redis connection that comes and goes
NextAudit ==
  \/ \E l \in LogSlots, entry \in AuditEntries : LogStart(l, entry)
  \/ \E l \in LogSlots : LogSet(l)
  \/ \E l \in LogSlots : LogSetFail(l)
  \/ Tick
  \/ CacheDown
  \/ CacheBack

\* audit logging as configured: on or off
InitAnyAudit ==
  /\ InitCore
  /\ \E enabled \in BOOLEAN : InitAudit(enabled)
  /\ InitTrace
  /\ InitMetrics
  /\ InitHealth
  /\ InitEdge

SpecAudit == InitAnyAudit /\ [][NextAudit]_vars

\* the context startSpan returned, as a caller passes it on
ContextOf(c) ==
  [traceId |-> c.traceId, spanId |-> c.spanId, parentId |-> c.parentId,
   sampled |-> c.sampled]

\* what a caller can pass as parentContext: nothing, or a context it was given
ParentContexts == {NoContext} \cup {ContextOf(c) : c \in ctxs}

\* spans are started, ended and read back while time passes; Redis is up
NextTrace ==
  \/ \E name \in SpanNames, parentContext \in ParentContexts :
       StartTimedSpan(name, parentContext)
  \/ \E sp \in spans : EndSpan(sp.id)
  \/ \E spanId \in saving : SaveSpan(spanId)
  \/ \E c \in ctxs : GetTrace(c.traceId)
  \/ GetTraceKeys
  \/ GetTraceMget
  \/ Tick

SpecTrace == Init /\ [][NextTrace]_vars

\* the tracer, within one instant, with a Redis connection that comes and goes
NextTraceOutage ==
  \/ \E name \in SpanNames, parentContext \in ParentContexts :
       StartTimedSpan(name, parentContext)
  \/ \E sp \in spans : EndSpan(sp.id)
  \/ \E sp \in spans : AddTag(sp.id)
  \/ \E sp \in spans : AddLog(sp.id)
  \/ \E spanId \in saving : SaveSpan(spanId)
  \/ \E spanId \in saving : SaveSpanFail(spanId)
  \/ \E c \in ctxs : GetTrace(c.traceId)
  \/ GetTraceKeys
  \/ GetTraceKeysFail
  \/ GetTraceMget
  \/ GetTraceMgetFail
  \/ CacheDown
  \/ CacheBack

SpecTraceOutage == Init /\ [][NextTraceOutage]_vars

\* spans are started, tagged, logged to and ended, some more than once, at
\* one instant with Redis up
NextReEnd ==
  \/ \E name \in SpanNames, parentContext \in ParentContexts :
       StartTimedSpan(name, parentContext)
  \/ \E sp \in spans : EndSpan(sp.id)
  \/ \E sp \in spans : EndSpanAgain(sp.id)
  \/ \E sp \in spans : AddTag(sp.id)
  \/ \E sp \in spans : AddLog(sp.id)
  \/ \E spanId \in saving : SaveSpan(spanId)

SpecReEnd == Init /\ [][NextReEnd]_vars

\* spans are started with either outcome of the random draw, ended and
\* written, at one instant with Redis up
NextPersist ==
  \/ \E name \in SpanNames, parentContext \in ParentContexts, draw \in RandomDraws :
       /\ Cardinality(spans) < MaxTimedSpans
       /\ StartSpan(name, parentContext, draw)
  \/ \E sp \in spans : EndSpan(sp.id)
  \/ \E spanId \in saving : SaveSpan(spanId)

SpecPersist == Init /\ [][NextPersist]_vars

\* spans are started, at one instant
NextSampling ==
  \E name \in SpanNames, parentContext \in ParentContexts, draw \in RandomDraws :
    StartSpan(name, parentContext, draw)

SpecSampling == Init /\ [][NextSampling]_vars

\* values passed to increment, gauge and histogram
Amounts == 1..MaxAmount

\* metrics are recorded, cleared and flushed, within one instant, while the
\* Redis connection comes and goes
NextMetrics ==
  \/ \E name \in MetricNames, value \in Amounts, labels \in LabelMaps :
       Increment(name, value, labels)
  \/ \E name \in MetricNames, value \in Amounts, labels \in LabelMaps :
       Gauge(name, value, labels)
  \/ \E name \in MetricNames, value \in Amounts, labels \in LabelMaps :
       Histogram(name, value, labels)
  \/ ClearMetrics
  \/ SaveMetricsStart
  \/ SaveMetricsSet
  \/ SaveMetricsSetFail
  \/ CacheDown
  \/ CacheBack

SpecMetrics == Init /\ [][NextMetrics]_vars

\* health checks by callers and by the timer, reads of the cached result and
\* the metrics flush of the timer, while intervals pass and the Redis
\* connection comes and goes
NextHealth ==
  \/ \E caller \in HealthCallers, sysOk \in BOOLEAN : CheckStart(caller, sysOk)
  \/ HealthSet
  \/ HealthSetFail
  \/ GetCachedHealthCheck
  \/ GetCachedHealthCheckFail
  \/ SaveMetricsStart
  \/ SaveMetricsSet
  \/ SaveMetricsSetFail
  \/ Interval
  \/ CacheDown
  \/ CacheBack

SpecHealth == Init /\ [][NextHealth]_vars

\* facade calls of one user for one route, within one window, with Redis up
NextFacade ==
  \/ \E c \in Checks, u \in Callers, e \in Endpoints : FacadeStart(c, u, e)
  \/ \E c \in Checks : FacadeIncr(c)
  \/ \E c \in Checks : FacadeExpire(c)
  \/ \E c \in Checks : FacadeGet(c)
  \/ \E c \in Checks : FacadeTtl(c)
  \/ \E c \in Checks : FacadeReturn(c)

SpecFacade == Init /\ [][NextFacade]_vars

\* checks for pairs whose strings contain delimiters of the key pattern,
\* within one window, with Redis up
NextPairs ==
  \/ \E c \in Checks, p \in DelimiterPairs : StartCheck(c, p[1], p[2])
  \/ \E c \in Checks : Incr(c)
  \/ \E c \in Checks : Expire(c)
  \/ \E c \in Checks : Get(c)
  \/ \E c \in Checks : Ttl(c)

SpecPairs == Init /\ [][NextPairs]_vars

\* rate-limit checks on a cache that has not connected yet
NextConnect ==
  \/ \E c \in Checks, u \in Users, e \in Endpoints, refused \in BOOLEAN :
       CacheOpStart(c, u, e, refused)
  \/ ConnectEvent
  \/ \E c \in Checks : CacheOpIncr(c)
  \/ \E c \in Checks : CacheOpExpire(c)

SpecConnect == Init /\ [][NextConnect]_vars

\* one call of makeRequest; every step that is enabled is eventually taken
NextHttp ==
  \/ RequestStart
  \/ \E outcome \in Outcomes : Attempt(outcome)
  \/ RetryDelay

SpecHttp == Init /\ [][NextHttp]_vars /\ WF_vars(NextHttp)

\* requests to the API, with and without a token
NextApi ==
  \/ \E id \in Identities : GenerateFirstToken(id)
  \/ \E route \in ApiRoutes : \E t \in issued : \E inp \in HeaderInputs(t) :
       ApiRequest(route, inp)

SpecApi == Init /\ [][NextApi]_vars

\* one caller within one instant: tokens are issued and verified between the
\* steps of its rate-limit checks and of the audit records of its logins
NextSession ==
  \/ \E id \in Identities : GenerateToken(id)
  \/ \E t \in issued : \E inp \in FewTokenInputs(t) : VerifyToken(inp)
  \/ \E u \in Callers, e \in Endpoints : StartCheck(1, u, e)
  \/ Incr(1)
  \/ Expire(1)
  \/ Get(1)
  \/ Ttl(1)
  \/ \E u \in Callers : LogStart(1, AuthAttemptEntry(u, TRUE))
  \/ LogSet(1)

SpecSession == Init /\ [][NextSession]_vars

\* ------------------------------------------------------------------------
\* Claims about tokens (SpecToken)
\* ------------------------------------------------------------------------

\* the identity fields of a payload that verifyToken returned
IdentityOf(obj) ==
  [userId |-> Member(obj, K_userId).s,
   email |-> Member(obj, K_email).s,
   role |-> Member(obj, K_role).s,
   permissions |-> [i \in 1..Len(Member(obj, K_permissions).a) |->
                      Member(obj, K_permissions).a[i].s]]

\* the call was made no later than the token's expires_at
LastInTime == NowSeconds(last.now) <= last.orig.iat + jwtExpiry

\* C1: a token that was issued for an identity and is verified at a time
\* from issued_at to expires_at is accepted, and the payload returned holds
\* the four identity fields that were passed to generateToken; the same
\* through authenticateRequest('Bearer ' + token).
C1_RoundTrip ==
  (last.kind = "issued" /\ LastInTime) =>
    /\ last.ok
    /\ last.payload.t = "o"
    /\ IdentityOf(last.payload) = last.orig.identity
    /\ last.error = ""

\* the facade accepted a token at its expires_at, for the identity whose
\* fields need escaping
C1_Witness ==
  /\ last.op = "auth"
  /\ last.kind = "issued"
  /\ last.ok
  /\ NowSeconds(last.now) = last.orig.iat + jwtExpiry
  /\ last.orig.identity.userId = <<117, 34>>

\* C2: a token that differs from an issued token in its payload part or in
\* its signature part is rejected at the comparison of the signatures, at
\* any time; no payload is returned for it.
C2_TamperRejected ==
  last.kind = "tampered" =>
    /\ ~last.ok
    /\ last.payload = NoPayload
    /\ last.at = "signature"

\* verifyToken has rejected a tampered token before the original expired
C2_Witness ==
  /\ last.op = "verify"
  /\ last.kind = "tampered"
  /\ ~last.ok
  /\ LastInTime

\* C3: an issued token is accepted at every time (in seconds, as verifyToken
\* reads the clock) up to issued_at + jwtExpiry, that second included, and
\* rejected by the expiry check at every later second.
C3_ExpiryBoundary ==
  last.kind = "issued" =>
    /\ last.ok <=> LastInTime
    /\ ~last.ok => last.at = "exp"

\* a token was rejected one second after its expires_at
C3_Witness ==
  /\ last.kind = "issued"
  /\ ~last.ok
  /\ last.at = "exp"
  /\ NowSeconds(last.now) = last.orig.iat + jwtExpiry + 1

\* what the caller of the last call got
Visible(call) == [ok |-> call.ok, payload |-> call.payload, error |-> call.error]

\* both calls were rejected by verifyToken, at different checks
RejectedAtDifferentChecks(a, b) ==
  /\ a.op = b.op
  /\ a.at \in {"parts", "signature", "exp"}
  /\ b.at \in {"parts", "signature", "exp"}
  /\ a.at # b.at

C5_Stateless ==
  [][last' # last =>
       /\ UNCHANGED <<clock, issued, cacheUp, store, chk, resp, win, obsVars>>
       /\ (last'.kind = "issued" /\ NowSeconds(last'.now) <= last'.orig.iat + jwtExpiry)
            => last'.ok]_vars

\* a token is accepted while a second token exists, the rate limiter has
\* denied the caller's last request and an audit record has been written
C5_Witness ==
  /\ last.op = "verify"
  /\ last.kind = "issued"
  /\ last.ok
  /\ Cardinality(issued) = MaxTokens
  /\ resp.op = "check"
  /\ ~resp.allowed
  /\ resp.current = rateLimitMax + 1
  /\ auditStat.written > 0

\* ------------------------------------------------------------------------
\* Claims about rate limiting
\* ------------------------------------------------------------------------

\* the calls for key that have incremented the counter and not yet set its expiry
Creating(key) == {c \in Checks : chk[c].pc = "expire" /\ chk[c].key = key}

\* the calls that have their counter value
Counted(c) == chk[c].pc \in {"expire", "get", "ttl"} /\ ~chk[c].incrFailed

\* C6: with Redis reachable, a check is allowed exactly if it is among the first
\* rateLimitMax increments since the counter was created, and a counter whose
\* creator has set the expiry is gone at most rateLimitWindow seconds later, so
\* that the next check starts a new count at 1 and is allowed again.
C6_WindowBudget ==
  /\ resp.op = "check" => (resp.allowed <=> resp.rank <= rateLimitMax)
  /\ \A k \in RateKeys :
       store[k].count > 0 /\ Creating(k) = {} =>
         /\ store[k].expireAt > clock
         /\ store[k].expireAt <= clock + rateLimitWindow * 1000

\* the response before was the denial of increment rateLimitMax + 1; the counter
\* has expired since and this check, the first of the new window, is allowed
C6_Witness ==
  /\ resp.op = "check"
  /\ resp.before = rateLimitMax + 1
  /\ resp.rank = 1
  /\ resp.allowed
  /\ ~resp.stale

\* C7: with Redis reachable and under every interleaving, the counter of a key
\* equals the number of checks that have incremented it since it was created,
\* and, once every such check has its answer, exactly min(that number,
\* rateLimitMax) of them are allowed.
C7_CountedOnce ==
  \A k \in RateKeys :
    /\ store[k].count = win[k].incs
    /\ Creating(k) = {} => win[k].grants = Min(win[k].incs, rateLimitMax)

\* two checks of one key in progress together, the counter one past the limit
C7_Witness ==
  \E k \in RateKeys :
    /\ win[k].incs = rateLimitMax + 1
    /\ win[k].grants = rateLimitMax
    /\ \A c \in Checks : chk[c].key = k /\ chk[c].pc \in {"get", "ttl"} /\ ~chk[c].stale
    /\ \E c, d \in Checks : chk[c].allowed /\ ~chk[d].allowed

\* C8: a check whose increment failed is allowed, and nothing is thrown to the
\* caller.
C8_FailOpen ==
  /\ \A c \in Checks : chk[c].incrFailed => chk[c].allowed
  /\ resp.op = "check" /\ resp.incrFailed => resp.allowed /\ ~resp.threw

\* the increment failed for a key whose budget was already used up
C8_Witness ==
  /\ resp.op = "check"
  /\ resp.incrFailed
  /\ resp.allowed
  /\ ~resp.threw
  /\ store[resp.key].count >= rateLimitMax

\* C9: remaining is never negative, and is 0 in the response of a check whose
\* increment brought the counter to rateLimitMax or beyond.
C9_RemainingSaturates ==
  resp.op = "check" /\ ~resp.incrFailed =>
    /\ resp.remaining >= 0
    /\ resp.current >= rateLimitMax => resp.remaining = 0

\* C10: a check that started after a response for the same key gets a counter
\* value greater than the one that response was computed from.
C10_Monotonic ==
  \A c \in Checks : Counted(c) /\ chk[c].before > 0 => chk[c].current > chk[c].before

\* C10, amended: the same, provided the counter has not expired between the
\* earlier check's increment and the later check's increment.
C10_MonotonicInWindow ==
  \A c \in Checks :
    Counted(c) /\ chk[c].before > 0 /\ chk[c].sameWin => chk[c].current > chk[c].before

\* a later check of the same window, its counter value above the earlier one
C10_Witness ==
  \E c \in Checks :
    /\ Counted(c)
    /\ chk[c].sameWin
    /\ chk[c].before >= 1
    /\ chk[c].current > chk[c].before
    /\ clock > 0

\* ------------------------------------------------------------------------
\* Claims about the audit log (SpecAudit)
\* ------------------------------------------------------------------------

\* C11: no call of log throws to its caller, whatever the entry and whether
\* or not the cache write failed; a failed write stores nothing, so there are
\* never more stored entries than successful writes.
C11_NeverThrows ==
  /\ lastLog.op = "log" => ~lastLog.threw
  /\ lastLog.failed => ~lastLog.wrote
  /\ Cardinality(auditStore) <= auditStat.written

\* a call of log has returned after its write failed, an earlier entry is stored
C11_Witness ==
  /\ lastLog.op = "log"
  /\ lastLog.failed
  /\ ~lastLog.threw
  /\ auditStat.dropped = 1
  /\ Cardinality(auditStore) = 1

\* C12: some counter kept by the program equals, at every time, the number of
\* calls of log whose cache write failed.
C12_ErrorCounter ==
  \E op \in MetricOps : cacheMetrics[op] = auditStat.dropped

\* C13: with audit logging off, calls of log (with the entries of
\* logAuthAttempt, logApiAccess and logPhotoAnalysis) make no cache call and
\* leave the audit state as it was after construction.
C13_DisabledNoOp ==
  ~auditEnabled =>
    /\ \A l \in LogSlots : alog[l] = IdleLog
    /\ auditStore = {}
    /\ cacheMetrics = [op \in MetricOps |-> 0]
    /\ auditStat.written = 0
    /\ auditStat.dropped = 0
    /\ lastLog.op = "log" => lastLog = [NoLog EXCEPT !.op = "log"]

\* with logging off, every call of the behaviour was made, the last one while
\* Redis could not be reached
C13_Witness ==
  /\ ~auditEnabled
  /\ auditStat.calls = MaxAuditCalls
  /\ lastLog.op = "log"
  /\ ~cacheUp

\* C14: no successful write replaces a stored entry, so the stored entries,
\* with those that have expired, are as many as the successful writes.
C14_AppendOnly ==
  /\ ~lastLog.replaced
  /\ Cardinality(auditStore) + auditStat.expired = auditStat.written

\* span a was ended before span b
EndedBefore(a, b) ==
  \E i, j \in DOMAIN traceLog.ended :
    i < j /\ traceLog.ended[i] = a /\ traceLog.ended[j] = b

\* C15: a span started without a parent context has no parent and a trace id
\* no other root has; a span started with a context has the trace id of the
\* context and its span id as parent; a child ended before its parent is in
\* the parent's trace and its end time is not after the parent's.
C15_SpanLinks ==
  \A c \in ctxs :
    LET span == SpanOf(c.spanId)
    IN  /\ HasSpan(c.spanId)
        /\ span.traceId = c.traceId
        /\ c.given = NoContext =>
             /\ span.parentId = NoId
             /\ c.parentId = NoId
             /\ \A d \in ctxs : d.given = NoContext /\ d.traceId = c.traceId => d = c
        /\ c.given # NoContext =>
             /\ span.traceId = c.given.traceId
             /\ span.parentId = c.given.spanId
             /\ c.parentId = c.given.spanId
             /\ EndedBefore(c.spanId, c.given.spanId) =>
                  /\ SpanOf(c.given.spanId).traceId = span.traceId
                  /\ span.endTime <= SpanOf(c.given.spanId).endTime

\* a root and its child, the child ended first and the root later
C15_Witness ==
  \E c \in ctxs :
    /\ c.given # NoContext
    /\ c.given.parentId = NoId
    /\ EndedBefore(c.spanId, c.given.spanId)
    /\ SpanOf(c.spanId).parentId = c.given.spanId
    /\ SpanOf(c.spanId).endTime < SpanOf(c.given.spanId).endTime

\* the spans that have been ended with a duration above the maximum
Overlong == {sp \in spans : sp.duration # NoTime /\ sp.duration > maxTraceDuration}

\* C16: a span ended with a duration above the maximum is under no key of the
\* cache and in no result of getTrace; a span of a trace whose write had
\* completed when getTrace was called for the trace is in the result.
C16_OverlongDiscarded ==
  /\ \A sp \in Overlong :
       /\ ~RedisHas(traceStore, TraceKey(sp))
       /\ \A x \in traceStore : x.value.id # sp.id
       /\ \A r \in lastTrace.result : r.id # sp.id
  /\ lastTrace.op = "getTrace" =>
       \A sp \in spans :
         sp.id \in lastTrace.before.saved /\ sp.traceId = lastTrace.traceId =>
           \E r \in lastTrace.result : r.id = sp.id /\ r.duration <= maxTraceDuration

\* getTrace, called after an overlong span of the trace was ended and the
\* write of another span of the trace had completed, returns only the latter
C16_Witness ==
  /\ lastTrace.op = "getTrace"
  /\ \E long \in Overlong, short \in spans :
       /\ long.traceId = lastTrace.traceId
       /\ short.traceId = lastTrace.traceId
       /\ \E i \in DOMAIN lastTrace.before.ended : lastTrace.before.ended[i] = long.id
       /\ short.id \in lastTrace.before.saved
       /\ {r.id : r \in lastTrace.result} = {short.id}

\* some span started with a context whose flag is p got the flag c
SampledPair(p, c) ==
  \E x \in ctxs : x.given # NoContext /\ x.given.sampled = p /\ x.sampled = c

\* C17: the sampled flag of every context is decided by the random draw of
\* its own startSpan call, whatever the flag of the parent context.
C17_SampledPerCall ==
  \A c \in ctxs : c.sampled = (c.draw < traceSamplingPct)

\* all four combinations of parent flag and child flag have occurred
C17_Witness ==
  \A p \in BOOLEAN, c \in BOOLEAN : SampledPair(p, c)

\* the state of a span in the table agrees with the calls made for it
SpanIntact(sp) ==
  /\ sp.startTime <= clock
  /\ IF \E i \in DOMAIN traceLog.ended : traceLog.ended[i] = sp.id
        THEN sp.endTime # NoTime /\ sp.duration = sp.endTime - sp.startTime
        ELSE sp.endTime = NoTime /\ sp.duration = NoTime

\* C18: no failed write raises; a span whose write failed is still in the
\* table, ended, with its end time and duration, as is every other span that
\* was started; getTrace never throws, and returns no span if one of its
\* cache calls failed.
C18_CacheFailureTolerated ==
  /\ traceLog.raised = {}
  /\ \A id \in traceLog.failed :
       /\ HasSpan(id)
       /\ SpanOf(id).endTime # NoTime
       /\ SpanOf(id).duration = SpanOf(id).endTime - SpanOf(id).startTime
  /\ \A c \in ctxs : HasSpan(c.spanId)
  /\ \A sp \in spans : SpanIntact(sp)
  /\ lastTrace.op = "getTrace" =>
       /\ ~lastTrace.threw
       /\ lastTrace.keysFailed \/ lastTrace.mgetFailed => lastTrace.result = {}

\* the write of one span failed; a span started after that was tagged,
\* logged to and ended; getTrace met the unreachable cache and returned []
C18_Witness ==
  /\ \E c \in ctxs :
       /\ c.after # {}
       /\ SpanOf(c.spanId).tags # {}
       /\ Len(SpanOf(c.spanId).logs) = MaxSpanLogs
       /\ SpanOf(c.spanId).endTime # NoTime
       /\ c.spanId \in traceLog.failed
  /\ lastTrace.op = "getTrace"
  /\ lastTrace.keysFailed
  /\ lastTrace.before.failed # {}
  /\ lastTrace.result = {}

\* the key/value pairs of a label object
LabelSet(labels) == {labels[i] : i \in DOMAIN labels}

\* the Metric objects the collector holds
Held == {heap[x.obj] : x \in metrics}

\* C19: label objects with the same pairs give the same key, whatever their
\* insertion order; the collector never holds two series with one name and
\* the same label pairs; a series addressed only by increments, with
\* differently ordered labels, holds their sum.
C19_LabelOrder ==
  /\ \A name \in MetricNames, l1 \in LabelMaps, l2 \in LabelMaps :
       LabelSet(l1) = LabelSet(l2) =>
         generateMetricKey(name, l1) = generateMetricKey(name, l2)
  /\ \A x \in metrics, y \in metrics :
       /\ heap[x.obj].name = heap[y.obj].name
       /\ LabelSet(heap[x.obj].labels) = LabelSet(heap[y.obj].labels)
       => x = y
  /\ \A x \in series :
       Cardinality(x.h.orders) > 1 /\ x.h.kinds = {"counter"} =>
         HasMetric(x.key) /\ MetricOf(x.key).value = x.h.sum

\* two increments by 1 whose labels differ only in their order have left one
\* series, of value 2
C19_Witness ==
  /\ Cardinality(metrics) = 1
  /\ \E x \in series :
       /\ x.h.kinds = {"counter"}
       /\ x.h.calls = 2
       /\ x.h.sum = 2
       /\ Cardinality(x.h.orders) = 2
       /\ MetricOf(x.key).value = 2

\* every series addressed by calls of one kind since the last clear holds
\* the sum of the amounts, if a counter, and the last value otherwise
SeriesValues ==
  \A x \in series :
    Cardinality(x.h.kinds) = 1 =>
      /\ HasMetric(x.key)
      /\ x.h.kinds = {MetricOf(x.key).type}
      /\ MetricOf(x.key).value =
           IF x.h.kinds = {"counter"} THEN x.h.sum ELSE x.h.last

\* C20: at all times a counter holds the sum of its increments since the last
\* clear and a gauge or histogram the value of its most recent call; no step
\* of saveMetrics changes the map of the collector or a Metric object.
C20_ValuesKept ==
  /\ []SeriesValues
  /\ [][flush.pc' # flush.pc => UNCHANGED <<metrics, heap>>]_vars

\* a counter incremented by 1 and by 2 holds 3, and the flush that ran
\* between the two increments wrote the value it had then
C20_Witness ==
  /\ flush.wrote = 1
  /\ \E x \in series :
       /\ x.h.kinds = {"counter"}
       /\ x.h.calls = 2
       /\ x.h.sum = 3
       /\ MetricOf(x.key).value = 3
       /\ \E e \in metricStore : \E r \in e.value : r.value < 3

\* C27: every counter key in the cache for which no check stands between its
\* increment and its expire carries an expiry, at most a window length away.
C27_CountersExpire ==
  \A k \in RateKeys :
    (store[k].count > 0 /\ \A c \in Checks : ~(chk[c].key = k /\ chk[c].pc = "expire")) =>
      /\ store[k].expireAt # -1
      /\ store[k].expireAt <= clock + rateLimitWindow * 1000

\* C21: a check that ran while Redis was reachable and the system probe
\* succeeded returns healthy, whatever the checks before it returned.
C21_HealthyWhenAllUp ==
  (/\ lastHealth.op = "check"
   /\ lastHealth.returned
   /\ lastHealth.upAtStart
   /\ lastHealth.upAtEnd
   /\ lastHealth.sysOk)
  => lastHealth.result.status = "healthy"

\* C22: a check made while Redis is unreachable returns a result, of status
\* unhealthy, whose cache probe is down with an error message; it throws nothing.
C22_UnreachableReported ==
  (/\ lastHealth.op = "check"
   /\ ~lastHealth.upAtStart
   /\ ~lastHealth.upAtEnd)
  => /\ ~lastHealth.threw
     /\ lastHealth.returned
     /\ lastHealth.result.status = "unhealthy"
     /\ lastHealth.result.checks.redis.status = "down"
     /\ lastHealth.result.checks.redis.error # ""

\* C23 as stated: no health call that arrives while a cached result is live
\* runs the probes.
C23_PollsUseCache ==
  (lastHealth.op # "none" /\ lastHealth.live) => lastHealth.probes = 0

\* C23, amended: a result is kept for at most 60 seconds; getCachedHealthCheck
\* runs no probe, returns the cached result while it is live and Redis is
\* reachable, and returns nothing once it has expired.
C23_CachedWhileLive ==
  /\ \A x \in healthStore :
       x.expireAt > clock /\ x.expireAt <= clock + HealthTtl * 1000
  /\ healthStat.probes + healthStat.reads = healthStat.calls
  /\ lastHealth.op = "cached" =>
       /\ lastHealth.probes = 0
       /\ lastHealth.returned /\ ~lastHealth.threw
       /\ (lastHealth.live /\ lastHealth.upAtEnd) => lastHealth.result # NoResult
       /\ ~lastHealth.live => lastHealth.result = NoResult

\* half a minute after the one check that ran, the cached result is read
C23_Witness ==
  /\ lastHealth.op = "cached"
  /\ lastHealth.live
  /\ lastHealth.result.status = "unhealthy"
  /\ lastHealth.result.uptime + healthCheckInterval = clock
  /\ healthStat.probes = 1

\* C24: no run of the timers of MonitoringManager.start, of the metrics
\* flush or of the health check, ends in a rejected promise nobody handles.
C24_NoUnhandledRejection ==
  /\ healthStat.unhandled = 0
  /\ lastHealth.caller = "timer" => ~lastHealth.threw

\* C25: the handler of an API route runs only for a request whose
\* Authorization header authenticateRequest accepts.
C25_AuthRequired ==
  (api.last.reached /\ api.last.route \in ApiRoutes) =>
    authenticateRequest(api.last.header, clock).authenticated

\* C26: two verifications that reject signatures of the same length at the
\* signature comparison examine the same number of characters, however many
\* leading characters of each match.
C26_ConstantTime ==
  [][(/\ last.op = "verify" /\ last.at = "signature"
      /\ last'.op = "verify" /\ last'.at = "signature"
      /\ last'.sigLen = last.sigLen)
       => last'.steps = last.steps]_vars

\* the spans of one trace
TraceSpans(traceId) == {sp \in spans : sp.traceId = traceId}

\* following parent links from sp, within its trace, ends at a span without
\* parent after at most n links
RECURSIVE ReachesRoot(_, _)
ReachesRoot(sp, n) ==
  IF sp.parentId = NoId THEN TRUE
  ELSE IF n = 0 THEN FALSE
  ELSE \E p \in TraceSpans(sp.traceId) : p.id = sp.parentId /\ ReachesRoot(p, n - 1)

\* C28: the spans that share a trace id form a tree: one of them has no
\* parent, the parent of every other one is a span of the same trace, and
\* parent links lead to the root without a cycle.
C28_TraceIsTree ==
  \A sp \in spans :
    LET trace == TraceSpans(sp.traceId)
    IN  /\ Cardinality({r \in trace : r.parentId = NoId}) = 1
        /\ sp.parentId # NoId =>
             /\ Cardinality({p \in trace : p.id = sp.parentId}) = 1
             /\ sp.parentId # sp.id
        /\ ReachesRoot(sp, Cardinality(trace))

\* a trace of a root, two children of the root and a child of a child, next
\* to another trace
C28_Witness ==
  \E a, b, c, d \in spans :
    /\ a.parentId = NoId
    /\ b.parentId = a.id /\ c.parentId = a.id /\ b # c
    /\ d.parentId = b.id
    /\ {b.traceId, c.traceId, d.traceId} = {a.traceId}
    /\ \E e \in spans : e.traceId # a.traceId

\* C29: a span snapshot stored under a key is never replaced by a different
\* one, whatever the tracer is called with afterwards.
C29_SnapshotsReadOnly ==
  [][\A x \in traceStore : \A y \in traceStore' :
       y.key = x.key => y.value = x.value]_vars

\* C30: every span in the cache is the span of a context that startSpan
\* returned with sampled = true.
C30_OnlySampledPersisted ==
  \A x \in traceStore : \A c \in ctxs :
    c.spanId = x.value.id => c.sampled

\* C31: a facade call increments the counter of its pair once, and each of
\* the first max_requests facade calls of a window is allowed.
C31_FacadeCountsOnce ==
  /\ (\A c \in Checks : fac.proc[c].pc = "idle") =>
       \A u \in Callers, e \in Endpoints : store[RateKey(u, e)].count = fac.started
  /\ (fac.last.op = "facade" /\ fac.last.nth <= rateLimitMax) => fac.last.allowed

\* C32: a response that refuses the request reports no remaining requests.
C32_RefusedHasNoneLeft ==
  (resp.op = "check" /\ ~resp.allowed) => resp.remaining = 0

\* C33: a step of a check for one pair leaves the counter of every other
\* pair as it was.
C33_PairsIndependent ==
  [][\A c \in Checks, q \in DelimiterPairs :
       (chk[c].pc # "idle" /\ chk'[c] # chk[c] /\ <<chk[c].userId, chk[c].endpoint>> # q)
         => store'[RateKey(q[1], q[2])] = store[RateKey(q[1], q[2])]]_vars

\* C34: every snapshot in the cache is a span as it was when an endSpan call
\* for it returned.
C34_SnapshotAtEnd ==
  \A x \in traceStore : x.value \in traceLog.atEnd

\* C35: a span for which endSpan has run is no longer in the span table.
C35_EndedNotHeld ==
  \A i \in DOMAIN traceLog.ended : ~HasSpan(traceLog.ended[i])

\* the keys of the series the calls are made on
MetricKeys == {generateMetricKey(name, labels) : name \in MetricNames, labels \in LabelMaps}

\* the map holds one metric under key
OneMetric(key) == Cardinality({x \in metrics : x.key = key}) = 1

\* C36: the map holds at most one metric per key, and after a call on a key
\* that held a metric of another kind it holds one metric of the kind of the
\* call, with the value of the call.
C36_KindReplaces ==
  /\ [](\A key \in MetricKeys : HasMetric(key) => OneMetric(key))
  /\ [][\A key \in MetricKeys :
          (SeriesOf(key)'.calls = SeriesOf(key).calls + 1 /\ HasMetric(key)) =>
            /\ OneMetric(key)'
            /\ MetricOf(key).type # MetricOf(key)'.type =>
                 MetricOf(key)'.value = SeriesOf(key)'.last]_vars

\* a gauge was followed by an increment on the same series: the map holds a
\* counter with the amount of the increment, less than the sum of the two calls
C36_Witness ==
  \E key \in MetricKeys :
    /\ HasMetric(key)
    /\ SeriesOf(key).kinds = {"gauge", "counter"}
    /\ SeriesOf(key).calls = 2
    /\ MetricOf(key).type = "counter"
    /\ MetricOf(key).value = SeriesOf(key).last
    /\ MetricOf(key).value < SeriesOf(key).sum

\* C37: a token with a wrong signature is rejected at the signature
\* comparison also when it has expired; only an issued token, whose signature
\* matches, gets as far as the decoding of the payload and the expiry check.
C37_SignatureBeforeExpiry ==
  /\ (last.kind = "tampered" /\ ~LastInTime) => (~last.ok /\ last.at = "signature")
  /\ last.at \in {"catch", "exp", "return"} => last.kind = "issued"

\* verifyToken has rejected, at the signature comparison and after its
\* expires_at, the issued token with the last character of its signature changed
C37_Witness ==
  /\ last.op = "verify"
  /\ last.kind = "tampered"
  /\ ~LastInTime
  /\ last.at = "signature"
  /\ last.sigLen > 0
  /\ last.steps = last.sigLen

\* C38: client.connect() is called at most once, and no check returns from
\* the catch block: every check that has returned was counted.
C38_ConnectsOnce ==
  /\ conn.connects <= 1
  /\ conn.failedOpen = 0
  /\ (\A c \in Checks : conn.proc[c].pc = "idle") => conn.counted = conn.calls

\* the attempts that met a response with a 4xx status
ClientErrors == {i \in DOMAIN http.log : http.log[i].kind = "status" /\ http.log[i].status \div 100 = 4}

\* what holds of makeRequest at every moment
AttemptsBounded ==
  /\ Len(http.log) <= retries + 1
  /\ \A i \in DOMAIN http.log : http.log[i].kind = "ok" => (i = Len(http.log) /\ http.returned)
  /\ \A i \in ClientErrors : i = Len(http.log) /\ http.pc = "done" /\ http.threw
  /\ http.pc = "done" =>
       /\ http.waits = Len(http.log) - 1
       /\ http.returned # http.threw
       /\ http.returned => http.log[Len(http.log)].kind = "ok"
       /\ http.threw => http.error = ErrorMessage(http.log[Len(http.log)])
  /\ http.pc = "fetch" => http.waits = Len(http.log)

\* C39: makeRequest ends, after at most retries + 1 attempts: it returns at
\* the first attempt that succeeds, makes no attempt after a 4xx response,
\* has waited once between two attempts and not after the last, and throws
\* the error of its last attempt if none succeeded.
C39_RetriesBounded ==
  /\ []AttemptsBounded
  /\ (http.pc = "fetch") ~> (http.pc = "done")

\* all retries + 1 attempts failed with errors that are retried, the last
\* with another error than the one before, and makeRequest threw
C39_Witness ==
  /\ http.pc = "done"
  /\ http.threw
  /\ Len(http.log) = retries + 1
  /\ http.waits = retries
  /\ http.log[retries].kind = "status"
  /\ http.log[retries + 1].kind = "network"
  /\ http.error = ErrorMessage(http.log[retries + 1])

====
